---------------------------- MODULE Spec2Model ----------------------------
(***************************************************************************)
(* useshortcut-py: the typed client of the Shortcut REST API.              *)
(*                                                                         *)
(*   - useshortcut/models.py: the dataclasses and their from_json          *)
(*     decoders (one table per class below, FromJson interprets them);     *)
(*   - useshortcut/client.py: _clean_dict and the create_*/update_*        *)
(*     methods that build request payloads, _make_request, and the         *)
(*     paginating generator _paginate_results.                             *)
(*                                                                         *)
(* The specifications share the variables:                                 *)
(*   Spec        the paginator (search_stories_iter) against a server      *)
(*               that answers the k-th request of a query with its k-th    *)
(*               page;                                                     *)
(*   FairSpec    Spec with a consumer that iterates to the end;            *)
(*   SpecDecode  one from_json call on a raw document;                     *)
(*   SpecEncode  one call of a client method (create_*/update_* on an      *)
(*               Input record, or a get_*/list_*/delete_* method);          *)
(*   SpecThreads two callers of from_json whose steps interleave.          *)
(***************************************************************************)
EXTENDS Integers, Sequences, FiniteSets, TLC

VARIABLES
    \* ---- the module useshortcut.models
    models,     \* the dataclasses by name (their fields, defaults and from_json)
    \* ---- paginator (client.py 59-116)
    pages,      \* per query: the responses the server holds, in chain order
    gen,        \* per query: the generator frame of _paginate_results
    yielded,    \* per query: the items delivered to the consumer, in order
    requests,   \* per query: the URLs requested through _make_request, in order
    \* ---- decoder (models.py from_json)
    cls,        \* the class whose from_json is called
    raw,        \* the raw document as the caller passed it
    data,       \* the same dict object after the call (from_json assigns into it)
    outcome,    \* "none" before the call, then the returned entity or the raised error
    second,     \* the same for a second call of from_json on the same dict
    \* ---- encoder (client.py create_*/update_*)
    method,     \* the client method called
    record,     \* the Input record passed to it
    sent,       \* the json= payload handed to _make_request ("none" before the call)
    http,       \* the HTTP exchanges of the call: verb, path and response status
    \* ---- concurrent callers of from_json
    heap,       \* the objects the callers hold, by reference, as they are now
    calls       \* per caller: class, reference, position in from_json, outcome

pagVars == <<pages, gen, yielded, requests>>
decVars == <<cls, raw, data, outcome, second>>
encVars == <<method, record, sent, http>>
conVars == <<heap, calls>>
vars ==
    <<models, pages, gen, yielded, requests, cls, raw, data, outcome, second, method, record,
      sent, http, heap, calls>>

----------------------------------------------------------------------------
(* Values.  Every Python value is a record [t, v]: t is its type, v its    *)
(* content.  A str is a sequence of tokens (its concatenation is the       *)
(* string); a timestamp string is lexed into date, "T", time and zone      *)
(* tokens, anything else is one token.  A dict is a function from keys to  *)
(* values, a list a sequence, a dataclass instance its class name and its  *)
(* attribute dict.                                                         *)

JNull == [t |-> "null", v |-> "None"]
JBool(b) == [t |-> "bool", v |-> b]
JInt(n) == [t |-> "int", v |-> n]
JStr(s) == [t |-> "str", v |-> <<s>>]
JTokens(q) == [t |-> "str", v |-> q]
JList(q) == [t |-> "list", v |-> q]
JDict(f) == [t |-> "dict", v |-> f]
JDatetime(d) == [t |-> "datetime", v |-> d]
JObj(c, f) == [t |-> "obj", v |-> [cls |-> c, attrs |-> f]]

EmptyDict == [k \in {} |-> JNull]

\* Python truthiness (`if x`, `x and y`, `while x`).
Truthy(x) ==
    CASE x.t = "null" -> FALSE
      [] x.t = "bool" -> x.v
      [] x.t = "int" -> x.v # 0
      [] x.t = "str" -> x.v # <<>> /\ x.v # <<"">>
      [] x.t = "list" -> x.v # <<>>
      [] x.t = "dict" -> DOMAIN x.v # {}
      [] OTHER -> TRUE

\* d with key k bound to x (d[k] = x on a dict).
SetKey(d, k, x) == (k :> x) @@ d

\* d without key k.
DelKey(d, k) == [j \in DOMAIN d \ {k} |-> d[j]]

SeqToSet(q) == {q[i] : i \in 1..Len(q)}

----------------------------------------------------------------------------
(* Timestamps: str.replace("Z", "+00:00") and datetime.fromisoformat.      *)

\* s.replace("Z", ""): the zone marker dropped instead of rewritten.
ReplaceZDropped(q) == SelectSeq(q, LAMBDA x : x # "Z")

\* s.replace("Z", "+00:00"): every occurrence of Z becomes +00:00.
ReplaceZ(q) == [i \in 1..Len(q) |-> IF q[i] = "Z" THEN "+00:00" ELSE q[i]]

IsDateToken(x) == x \in {"2024-01-15", "2024-06-20"}
IsTimeToken(x) == x \in {"10:30:00", "18:45:30"}
IsOffsetToken(x) == x \in {"+00:00", "+02:00"}

\* datetime.fromisoformat(s): YYYY-MM-DD[THH:MM:SS[+HH:MM]]; a string without
\* offset gives a naive datetime (tzinfo None), anything else ValueError.
FromIsoFormat(q) ==
    IF Len(q) = 1 /\ IsDateToken(q[1])
    THEN [ok |-> TRUE, dt |-> [date |-> q[1], time |-> "00:00:00", tzinfo |-> "None"]]
    ELSE IF Len(q) = 3 /\ IsDateToken(q[1]) /\ q[2] = "T" /\ IsTimeToken(q[3])
    THEN [ok |-> TRUE, dt |-> [date |-> q[1], time |-> q[3], tzinfo |-> "None"]]
    ELSE IF Len(q) = 4 /\ IsDateToken(q[1]) /\ q[2] = "T" /\ IsTimeToken(q[3])
            /\ IsOffsetToken(q[4])
    THEN [ok |-> TRUE, dt |-> [date |-> q[1], time |-> q[3], tzinfo |-> q[4]]]
    ELSE [ok |-> FALSE, dt |-> [date |-> "", time |-> "", tzinfo |-> "None"]]

\* The conversion every from_json applies to a date field:
\* datetime.fromisoformat(data[k].replace("Z", "+00:00")).
ParseDate(x) == FromIsoFormat(ReplaceZ(x.v))

\* tzinfo is set: the datetime is offset-aware.
IsAware(x) == x.t = "datetime" /\ x.v.tzinfo # "None"

SecondsOfDay(tok) == IF tok = "10:30:00" THEN 37800 ELSE IF tok = "18:45:30" THEN 67530 ELSE 0
OffsetSeconds(tok) == IF tok = "+02:00" THEN 7200 ELSE 0

\* datetime.__eq__: two aware datetimes are equal when they are the same
\* instant, two naive ones when their fields are, an aware and a naive never.
DatetimeEq(a, b) ==
    /\ a.t = "datetime" /\ b.t = "datetime"
    /\ IsAware(a) = IsAware(b)
    /\ a.v.date = b.v.date
    /\ IF IsAware(a)
       THEN SecondsOfDay(a.v.time) - OffsetSeconds(a.v.tzinfo)
            = SecondsOfDay(b.v.time) - OffsetSeconds(b.v.tzinfo)
       ELSE a.v.time = b.v.time

----------------------------------------------------------------------------
(* Dataclass tables.  One row per field, in declaration order: Req is a    *)
(* field without default (a required constructor argument), Def a field    *)
(* with its default (default_factory=list is the empty list).  kind/of is  *)
(* the annotation with Optional[] taken off: scalar str|int|bool,          *)
(* datetime, list of ..., dict, any, record of a class, record_list of a   *)
(* class.  from_json lists the statements of the decoder in order:         *)
(*   Date(k)       if k in data and isinstance(data[k], str):              *)
(*                     data[k] = datetime.fromisoformat(                   *)
(*                         data[k].replace("Z", "+00:00"))                 *)
(*   One(k, C, g)  if k in data [and data[k]]: data[k] = C.from_json(..)   *)
(*   Each(k, C)    if k in data: data[k] = [C.from_json(x) for x in ..]    *)
(* construct is the return statement: kwargs is cls( **data), annotated     *)
(* is cls( **{k: v ... if k in cls.__annotations__}), explicit builds the   *)
(* instance from the keys in reads (data[k] or data.get(k)).               *)

Req(n, k, o, opt) ==
    [name |-> n, kind |-> k, of |-> o, optional |-> opt, has_default |-> FALSE,
     default |-> JNull]
Def(n, k, o, opt, d) ==
    [name |-> n, kind |-> k, of |-> o, optional |-> opt, has_default |-> TRUE,
     default |-> d]
Date(k) == [op |-> "date", key |-> k, cls |-> "", guard |-> "str"]
One(k, c, g) == [op |-> "one", key |-> k, cls |-> c, guard |-> g]
Each(k, c) == [op |-> "each", key |-> k, cls |-> c, guard |-> "present"]

\* models.py 8-47: class CreateStoryParams
CreateStoryParams ==
  [name |-> "CreateStoryParams",
   fields |-> <<
     Req("name", "scalar", "str", FALSE),
     Req("workflow_state_id", "scalar", "int", FALSE),
     Def("description", "scalar", "str", TRUE, JNull),
     Def("story_type", "scalar", "str", TRUE, JStr("feature")),
     Def("project_id", "scalar", "int", TRUE, JNull),
     Def("epic_id", "scalar", "int", TRUE, JNull),
     Def("label_ids", "list", "int", TRUE, JNull),
     Def("archived", "scalar", "bool", TRUE, JNull),
     Def("story_links", "list", "dict[str, Any]", TRUE, JNull),
     Def("labels", "list", "dict[str, Any]", TRUE, JNull),
     Def("custom_fields", "list", "dict[str, Any]", TRUE, JNull),
     Def("move_to", "scalar", "str", TRUE, JNull),
     Def("file_ids", "list", "int", TRUE, JNull),
     Def("source_task_id", "scalar", "int", TRUE, JNull),
     Def("completed_at_override", "datetime", "datetime", TRUE, JNull),
     Def("comments", "list", "dict[str, Any]", TRUE, JNull),
     Def("story_template_id", "scalar", "str", TRUE, JNull),
     Def("external_links", "list", "str", TRUE, JNull),
     Def("sub_tasks", "list", "dict[str, Any]", TRUE, JNull),
     Def("requested_by_id", "scalar", "str", TRUE, JNull),
     Def("iteration_id", "scalar", "int", TRUE, JNull),
     Def("tasks", "list", "dict[str, Any]", TRUE, JNull),
     Def("started_at_override", "datetime", "datetime", TRUE, JNull),
     Def("group_id", "scalar", "str", TRUE, JNull),
     Def("updated_at", "datetime", "datetime", TRUE, JNull),
     Def("follower_ids", "list", "str", TRUE, JNull),
     Def("owner_ids", "list", "str", TRUE, JNull),
     Def("external_id", "scalar", "str", TRUE, JNull),
     Def("parent_story_id", "scalar", "int", TRUE, JNull),
     Def("estimate", "scalar", "int", TRUE, JNull),
     Def("linked_file_ids", "list", "int", TRUE, JNull),
     Def("deadline", "datetime", "datetime", TRUE, JNull),
     Def("created_at", "datetime", "datetime", TRUE, JNull)>>,
   from_json |-> <<>>,
   construct |-> "none", reads |-> <<>>]

\* models.py 50-70: class UpdateStoryInput
UpdateStoryInput ==
  [name |-> "UpdateStoryInput",
   fields |-> <<
     Def("name", "scalar", "str", TRUE, JNull),
     Def("description", "scalar", "str", TRUE, JNull),
     Def("workflow_state_id", "scalar", "int", TRUE, JNull),
     Def("story_type", "scalar", "str", TRUE, JNull),
     Def("project_id", "scalar", "int", TRUE, JNull),
     Def("epic_id", "scalar", "int", TRUE, JNull),
     Def("label_ids", "list", "int", TRUE, JNull),
     Def("owner_ids", "list", "str", TRUE, JNull),
     Def("follower_ids", "list", "str", TRUE, JNull),
     Def("archived", "scalar", "bool", TRUE, JNull),
     Def("deadline", "datetime", "datetime", TRUE, JNull),
     Def("estimate", "scalar", "int", TRUE, JNull),
     Def("requested_by_id", "scalar", "str", TRUE, JNull),
     Def("iteration_id", "scalar", "int", TRUE, JNull),
     Def("completed_at_override", "datetime", "datetime", TRUE, JNull),
     Def("started_at_override", "datetime", "datetime", TRUE, JNull),
     Def("group_id", "scalar", "str", TRUE, JNull),
     Def("before_id", "scalar", "int", TRUE, JNull),
     Def("after_id", "scalar", "int", TRUE, JNull)>>,
   from_json |-> <<>>,
   construct |-> "none", reads |-> <<>>]

\* models.py 73-166: class Story
Story ==
  [name |-> "Story",
   fields |-> <<
     Req("name", "scalar", "str", FALSE),
     Def("id", "scalar", "int", TRUE, JNull),
     Def("global_id", "scalar", "str", TRUE, JNull),
     Def("external_id", "scalar", "str", TRUE, JNull),
     Def("deadline", "datetime", "datetime", TRUE, JNull),
     Def("description", "scalar", "str", TRUE, JNull),
     Def("story_type", "scalar", "str", FALSE, JStr("feature")),
     Def("estimate", "scalar", "str", TRUE, JNull),
     Def("group_id", "scalar", "str", TRUE, JNull),
     Def("story_template_id", "scalar", "str", TRUE, JNull),
     Def("workflow_state_id", "scalar", "int", TRUE, JNull),
     Def("project_id", "scalar", "int", TRUE, JNull),
     Def("requested_by_id", "scalar", "str", TRUE, JNull),
     Def("workflow_id", "scalar", "int", TRUE, JNull),
     Def("epic_id", "scalar", "int", TRUE, JNull),
     Def("iteration_id", "scalar", "int", TRUE, JNull),
     Def("parent_story_id", "scalar", "int", TRUE, JNull),
     Def("labels", "list", "dict[str, Any]", FALSE, JList(<<>>)),
     Def("created_at", "datetime", "datetime", TRUE, JNull),
     Def("updated_at", "datetime", "datetime", TRUE, JNull),
     Def("app_url", "scalar", "str", TRUE, JNull),
     Def("archived", "scalar", "bool", TRUE, JNull),
     Def("started", "scalar", "bool", TRUE, JNull),
     Def("completed", "scalar", "bool", TRUE, JNull),
     Def("blocker", "scalar", "bool", TRUE, JNull),
     Def("moved_at", "datetime", "datetime", TRUE, JNull),
     Def("completed_at", "datetime", "datetime", TRUE, JNull),
     Def("completed_at_override", "datetime", "datetime", TRUE, JNull),
     Def("started_at", "datetime", "datetime", TRUE, JNull),
     Def("started_at_override", "datetime", "datetime", TRUE, JNull),
     Def("position", "scalar", "int", TRUE, JNull),
     Def("blocked", "scalar", "bool", TRUE, JNull),
     Def("pull_requests", "list", "dict[str, Any]", TRUE, JList(<<>>)),
     Def("story_links", "list", "dict[str, Any]", TRUE, JList(<<>>)),
     Def("comments", "list", "dict[str, Any]", TRUE, JList(<<>>)),
     Def("branches", "list", "dict[str, Any]", TRUE, JList(<<>>)),
     Def("tasks", "list", "dict[str, Any]", TRUE, JList(<<>>)),
     Def("commits", "list", "dict[str, Any]", TRUE, JList(<<>>)),
     Def("files", "list", "dict[str, Any]", TRUE, JList(<<>>)),
     Def("external_links", "list", "dict[str, Any]", TRUE, JList(<<>>)),
     Def("group_mention_ids", "list", "int", TRUE, JList(<<>>)),
     Def("comment_ids", "list", "int", TRUE, JList(<<>>)),
     Def("follower_ids", "list", "int", TRUE, JList(<<>>)),
     Def("owner_ids", "list", "int", TRUE, JList(<<>>)),
     Def("previous_iteration_ids", "list", "int", TRUE, JList(<<>>)),
     Def("mention_ids", "list", "int", TRUE, JList(<<>>)),
     Def("member_mention_ids", "list", "int", TRUE, JList(<<>>)),
     Def("label_ids", "list", "int", TRUE, JList(<<>>)),
     Def("task_ids", "list", "int", TRUE, JList(<<>>)),
     Def("file_ids", "list", "int", TRUE, JList(<<>>)),
     Def("linked_files", "list", "dict[str, Any]", TRUE, JList(<<>>)),
     Def("linked_file_ids", "list", "int", TRUE, JList(<<>>)),
     Def("sub_task_story_ids", "list", "int", TRUE, JList(<<>>)),
     Def("custom_fields", "list", "dict[str, Any]", TRUE, JList(<<>>)),
     Def("num_tasks_completed", "scalar", "int", TRUE, JNull),
     Def("stats", "dict", "dict[str, Any]", TRUE, JNull),
     Def("lead_time", "scalar", "int", TRUE, JNull),
     Def("cycle_time", "scalar", "int", TRUE, JNull),
     Def("formatted_vcs_branch_name", "scalar", "str", TRUE, JNull),
     Def("entity_type", "scalar", "str", FALSE, JStr("story"))>>,
   from_json |-> <<
     Date("created_at"),
     Date("updated_at"),
     Date("deadline"),
     Date("moved_at"),
     Date("completed_at"),
     Date("completed_at_override"),
     Date("started_at"),
     Date("started_at_override")>>,
   construct |-> "kwargs", reads |-> <<>>]

\* models.py 169-207: class Task
Task ==
  [name |-> "Task",
   fields |-> <<
     Req("id", "scalar", "int", FALSE),
     Req("description", "scalar", "str", FALSE),
     Req("complete", "scalar", "bool", FALSE),
     Req("story_id", "scalar", "int", FALSE),
     Req("entity_type", "scalar", "str", FALSE),
     Req("position", "scalar", "int", FALSE),
     Req("created_at", "datetime", "datetime", FALSE),
     Def("completed_at", "datetime", "datetime", TRUE, JNull),
     Def("updated_at", "datetime", "datetime", TRUE, JNull),
     Def("external_id", "scalar", "str", TRUE, JNull),
     Def("global_id", "scalar", "str", TRUE, JNull),
     Def("owner_ids", "list", "str", FALSE, JList(<<>>)),
     Def("mention_ids", "list", "str", FALSE, JList(<<>>)),
     Def("member_mention_ids", "list", "str", FALSE, JList(<<>>)),
     Def("group_mention_ids", "list", "str", FALSE, JList(<<>>))>>,
   from_json |-> <<
     Date("created_at"),
     Date("updated_at"),
     Date("completed_at")>>,
   construct |-> "kwargs", reads |-> <<>>]

\* models.py 210-219: class CreateTaskInput
CreateTaskInput ==
  [name |-> "CreateTaskInput",
   fields |-> <<
     Req("description", "scalar", "str", FALSE),
     Def("complete", "scalar", "bool", FALSE, JBool(FALSE)),
     Def("owner_ids", "list", "str", FALSE, JList(<<>>)),
     Def("external_id", "scalar", "str", TRUE, JNull),
     Def("created_at", "datetime", "datetime", TRUE, JNull),
     Def("updated_at", "datetime", "datetime", TRUE, JNull)>>,
   from_json |-> <<>>,
   construct |-> "none", reads |-> <<>>]

\* models.py 222-230: class UpdateTaskInput
UpdateTaskInput ==
  [name |-> "UpdateTaskInput",
   fields |-> <<
     Def("description", "scalar", "str", TRUE, JNull),
     Def("owner_ids", "list", "str", TRUE, JNull),
     Def("complete", "scalar", "bool", TRUE, JNull),
     Def("before_id", "scalar", "int", TRUE, JNull),
     Def("after_id", "scalar", "int", TRUE, JNull)>>,
   from_json |-> <<>>,
   construct |-> "none", reads |-> <<>>]

\* models.py 233-245: class CreateEpicInput
CreateEpicInput ==
  [name |-> "CreateEpicInput",
   fields |-> <<
     Req("name", "scalar", "str", FALSE),
     Def("description", "scalar", "str", TRUE, JNull),
     Def("state", "scalar", "str", TRUE, JStr("to do")),
     Def("milestone_id", "scalar", "int", TRUE, JNull),
     Def("requested_by_id", "scalar", "str", TRUE, JNull),
     Def("group_id", "scalar", "str", TRUE, JNull),
     Def("owner_ids", "list", "str", TRUE, JNull),
     Def("follower_ids", "list", "str", TRUE, JNull),
     Def("label_ids", "list", "int", TRUE, JNull),
     Def("planned_start_date", "datetime", "datetime", TRUE, JNull),
     Def("deadline", "datetime", "datetime", TRUE, JNull)>>,
   from_json |-> <<>>,
   construct |-> "none", reads |-> <<>>]

\* models.py 248-263: class UpdateEpicInput
UpdateEpicInput ==
  [name |-> "UpdateEpicInput",
   fields |-> <<
     Def("name", "scalar", "str", TRUE, JNull),
     Def("description", "scalar", "str", TRUE, JNull),
     Def("state", "scalar", "str", TRUE, JNull),
     Def("milestone_id", "scalar", "int", TRUE, JNull),
     Def("requested_by_id", "scalar", "str", TRUE, JNull),
     Def("group_id", "scalar", "str", TRUE, JNull),
     Def("owner_ids", "list", "str", TRUE, JNull),
     Def("follower_ids", "list", "str", TRUE, JNull),
     Def("label_ids", "list", "int", TRUE, JNull),
     Def("planned_start_date", "datetime", "datetime", TRUE, JNull),
     Def("deadline", "datetime", "datetime", TRUE, JNull),
     Def("archived", "scalar", "bool", TRUE, JNull),
     Def("before_id", "scalar", "int", TRUE, JNull),
     Def("after_id", "scalar", "int", TRUE, JNull)>>,
   from_json |-> <<>>,
   construct |-> "none", reads |-> <<>>]

\* models.py 270-357: class Epic
Epic ==
  [name |-> "Epic",
   fields |-> <<
     Req("id", "scalar", "int", FALSE),
     Req("global_id", "scalar", "str", FALSE),
     Req("name", "scalar", "str", FALSE),
     Def("archived", "scalar", "bool", TRUE, JNull),
     Def("description", "scalar", "str", TRUE, JNull),
     Def("state", "scalar", "str", FALSE, JStr("to do")),
     Def("group_id", "scalar", "str", TRUE, JNull),
     Def("created_at", "datetime", "datetime", TRUE, JNull),
     Def("updated_at", "datetime", "datetime", TRUE, JNull),
     Def("deadline", "datetime", "datetime", TRUE, JNull),
     Def("started", "scalar", "bool", TRUE, JNull),
     Def("started_at", "datetime", "datetime", TRUE, JNull),
     Def("requested_by_id", "scalar", "str", TRUE, JNull),
     Def("productboard_id", "scalar", "str", TRUE, JNull),
     Def("productboard_plugin_id", "scalar", "str", TRUE, JNull),
     Def("productboard_url", "scalar", "str", TRUE, JNull),
     Def("productboard_name", "scalar", "str", TRUE, JNull),
     Def("completed", "scalar", "bool", TRUE, JNull),
     Def("completed_at", "datetime", "datetime", TRUE, JNull),
     Def("completed_at_override", "datetime", "datetime", TRUE, JNull),
     Def("objective_ids", "list", "str", TRUE, JList(<<>>)),
     Def("planned_start_date", "datetime", "datetime", TRUE, JNull),
     Def("started_at_override", "datetime", "datetime", TRUE, JNull),
     Def("milestone_id", "scalar", "int", TRUE, JNull),
     Def("epic_state_id", "scalar", "int", TRUE, JNull),
     Def("app_url", "scalar", "str", TRUE, JNull),
     Def("entity_type", "scalar", "str", FALSE, JStr("epic")),
     Def("group_mention_ids", "list", "str", TRUE, JList(<<>>)),
     Def("follower_ids", "list", "str", TRUE, JList(<<>>)),
     Def("labels", "list", "dict[str, Any]", TRUE, JList(<<>>)),
     Def("label_ids", "list", "int", TRUE, JList(<<>>)),
     Def("group_ids", "list", "str", TRUE, JList(<<>>)),
     Def("owner_ids", "list", "str", TRUE, JList(<<>>)),
     Def("external_id", "scalar", "str", TRUE, JNull),
     Def("position", "scalar", "int", TRUE, JNull),
     Def("stories_without_projects", "any", "Any", TRUE, JNull),
     Def("project_ids", "list", "int", TRUE, JList(<<>>)),
     Def("mention_ids", "list", "str", TRUE, JList(<<>>)),
     Def("member_mention_ids", "list", "str", TRUE, JList(<<>>)),
     Def("associated_groups", "list", "dict[str, Any]", TRUE, JList(<<>>)),
     Def("comments", "list", "dict[str, Any]", TRUE, JList(<<>>)),
     Def("stats", "any", "Any", TRUE, JNull)>>,
   from_json |-> <<
     Date("created_at"),
     Date("updated_at"),
     Date("deadline"),
     Date("started_at"),
     Date("completed_at"),
     Date("completed_at_override"),
     Date("started_at_override"),
     Date("planned_start_date")>>,
   construct |-> "kwargs", reads |-> <<>>]

\* models.py 360-380: class EpicWorkflow
EpicWorkflow ==
  [name |-> "EpicWorkflow",
   fields |-> <<
     Req("id", "scalar", "int", FALSE),
     Req("default_epic_state_id", "scalar", "int", FALSE),
     Req("epic_states", "list", "dict[str, Any]", FALSE),
     Def("created_at", "datetime", "datetime", TRUE, JNull),
     Def("updated_at", "datetime", "datetime", TRUE, JNull),
     Def("entity_type", "scalar", "str", FALSE, JStr("epic-workflow"))>>,
   from_json |-> <<
     Date("created_at"),
     Date("updated_at")>>,
   construct |-> "kwargs", reads |-> <<>>]

\* models.py 383-391: class CreateIterationInput
CreateIterationInput ==
  [name |-> "CreateIterationInput",
   fields |-> <<
     Req("name", "scalar", "str", FALSE),
     Req("start_date", "scalar", "str", FALSE),
     Req("end_date", "scalar", "str", FALSE),
     Def("description", "scalar", "str", TRUE, JNull),
     Def("follower_ids", "list", "str", TRUE, JNull),
     Def("group_ids", "list", "str", TRUE, JNull),
     Def("label_ids", "list", "int", TRUE, JNull)>>,
   from_json |-> <<>>,
   construct |-> "none", reads |-> <<>>]

\* models.py 394-402: class UpdateIterationInput
UpdateIterationInput ==
  [name |-> "UpdateIterationInput",
   fields |-> <<
     Def("name", "scalar", "str", TRUE, JNull),
     Def("description", "scalar", "str", TRUE, JNull),
     Def("start_date", "scalar", "str", TRUE, JNull),
     Def("end_date", "scalar", "str", TRUE, JNull),
     Def("follower_ids", "list", "str", TRUE, JNull),
     Def("group_ids", "list", "str", TRUE, JNull),
     Def("label_ids", "list", "int", TRUE, JNull)>>,
   from_json |-> <<>>,
   construct |-> "none", reads |-> <<>>]

\* models.py 405-451: class Iteration
Iteration ==
  [name |-> "Iteration",
   fields |-> <<
     Req("id", "scalar", "int", FALSE),
     Req("name", "scalar", "str", FALSE),
     Req("global_id", "scalar", "str", FALSE),
     Def("start_date", "datetime", "datetime", TRUE, JNull),
     Def("end_date", "datetime", "datetime", TRUE, JNull),
     Def("status", "scalar", "str", FALSE, JStr("unstarted")),
     Def("description", "scalar", "str", TRUE, JNull),
     Def("created_at", "datetime", "datetime", TRUE, JNull),
     Def("updated_at", "datetime", "datetime", TRUE, JNull),
     Def("app_url", "scalar", "str", TRUE, JNull),
     Def("labels", "list", "dict[str, Any]", TRUE, JList(<<>>)),
     Def("follower_ids", "list", "str", TRUE, JList(<<>>)),
     Def("group_ids", "list", "str", TRUE, JList(<<>>)),
     Def("mention_ids", "list", "str", TRUE, JList(<<>>)),
     Def("member_mention_ids", "list", "str", TRUE, JList(<<>>)),
     Def("group_mention_ids", "list", "str", TRUE, JList(<<>>)),
     Def("label_ids", "list", "int", TRUE, JList(<<>>)),
     Def("associated_groups", "list", "dict[str, Any]", TRUE, JList(<<>>)),
     Def("entity_type", "scalar", "str", FALSE, JStr("iteration")),
     Def("stats", "any", "Any", TRUE, JNull)>>,
   from_json |-> <<
     Date("created_at"),
     Date("updated_at"),
     Date("start_date"),
     Date("end_date")>>,
   construct |-> "kwargs", reads |-> <<>>]

\* models.py 454-458: class StoryLinkInput
StoryLinkInput ==
  [name |-> "StoryLinkInput",
   fields |-> <<
     Req("object_id", "scalar", "int", FALSE),
     Req("subject_id", "scalar", "int", FALSE),
     Req("verb", "scalar", "str", FALSE)>>,
   from_json |-> <<>>,
   construct |-> "none", reads |-> <<>>]

\* models.py 461-473: class StoryLink
StoryLink ==
  [name |-> "StoryLink",
   fields |-> <<
     Req("id", "scalar", "int", FALSE),
     Req("object_id", "scalar", "int", FALSE),
     Req("subject_id", "scalar", "int", FALSE),
     Req("verb", "scalar", "str", FALSE),
     Def("entity_type", "scalar", "str", FALSE, JStr("story-link")),
     Def("created_at", "datetime", "datetime", TRUE, JNull),
     Def("updated_at", "datetime", "datetime", TRUE, JNull)>>,
   from_json |-> <<>>,
   construct |-> "kwargs", reads |-> <<>>]

\* models.py 476-479: class CreateGroupInput
CreateGroupInput ==
  [name |-> "CreateGroupInput",
   fields |-> <<
     Req("name", "scalar", "str", FALSE),
     Req("mention_name", "scalar", "str", FALSE)>>,
   from_json |-> <<>>,
   construct |-> "none", reads |-> <<>>]

\* models.py 482-484: class UpdateGroupInput
UpdateGroupInput ==
  [name |-> "UpdateGroupInput",
   fields |-> <<
     Def("name", "scalar", "str", TRUE, JNull)>>,
   from_json |-> <<>>,
   construct |-> "none", reads |-> <<>>]

\* models.py 487-516: class Group
Group ==
  [name |-> "Group",
   fields |-> <<
     Req("id", "scalar", "int", FALSE),
     Req("global_id", "scalar", "str", FALSE),
     Req("name", "scalar", "str", FALSE),
     Def("entity_type", "scalar", "str", FALSE, JStr("group")),
     Def("mention_name", "scalar", "str", TRUE, JNull),
     Def("description", "scalar", "str", TRUE, JNull),
     Def("archived", "scalar", "bool", TRUE, JNull),
     Def("app_url", "scalar", "str", TRUE, JNull),
     Def("color", "scalar", "str", TRUE, JNull),
     Def("color_key", "scalar", "str", TRUE, JNull),
     Def("display_icon", "any", "Any", TRUE, JNull),
     Def("member_ids", "list", "str", TRUE, JList(<<>>)),
     Def("num_stories_started", "scalar", "int", TRUE, JNull),
     Def("num_stories", "scalar", "int", TRUE, JNull),
     Def("num_epics_started", "scalar", "int", TRUE, JNull),
     Def("num_stories_backlog", "scalar", "int", TRUE, JNull),
     Def("workflow_ids", "list", "int", TRUE, JList(<<>>)),
     Def("default_workflow_id", "scalar", "int", TRUE, JNull),
     Def("created_at", "datetime", "datetime", TRUE, JNull),
     Def("updated_at", "datetime", "datetime", TRUE, JNull)>>,
   from_json |-> <<>>,
   construct |-> "kwargs", reads |-> <<>>]

\* models.py 519-526: class KeyResultValue
KeyResultValue ==
  [name |-> "KeyResultValue",
   fields |-> <<
     Req("boolean_value", "scalar", "bool", FALSE),
     Req("numeric_value", "scalar", "str", FALSE)>>,
   from_json |-> <<>>,
   construct |-> "kwargs", reads |-> <<>>]

\* models.py 529-535: class KeyResultInput
KeyResultInput ==
  [name |-> "KeyResultInput",
   fields |-> <<
     Def("name", "scalar", "str", TRUE, JNull),
     Def("initial_observed_value", "record", "KeyResultValue", TRUE, JNull),
     Def("observed_value", "record", "KeyResultValue", TRUE, JNull),
     Def("target_value", "record", "KeyResultValue", TRUE, JNull)>>,
   from_json |-> <<>>,
   construct |-> "none", reads |-> <<>>]

\* models.py 538-551: class KeyResult
KeyResult ==
  [name |-> "KeyResult",
   fields |-> <<
     Req("id", "scalar", "int", FALSE),
     Req("name", "scalar", "str", FALSE),
     Req("current_observed_value", "record", "KeyResultValue", FALSE),
     Req("current_target_value", "record", "KeyResultValue", FALSE),
     Def("entity_type", "scalar", "str", FALSE, JStr("key")),
     Def("progress", "scalar", "int", TRUE, JNull),
     Def("objective_id", "scalar", "int", TRUE, JNull),
     Def("initial_observed_value", "scalar", "int", TRUE, JNull)>>,
   from_json |-> <<>>,
   construct |-> "kwargs", reads |-> <<>>]

\* models.py 554-559: class CreateLabelInput
CreateLabelInput ==
  [name |-> "CreateLabelInput",
   fields |-> <<
     Req("name", "scalar", "str", FALSE),
     Def("color", "scalar", "str", TRUE, JNull),
     Def("description", "scalar", "str", TRUE, JNull),
     Def("external_id", "scalar", "str", TRUE, JNull)>>,
   from_json |-> <<>>,
   construct |-> "none", reads |-> <<>>]

\* models.py 562-567: class UpdateLabelInput
UpdateLabelInput ==
  [name |-> "UpdateLabelInput",
   fields |-> <<
     Def("name", "scalar", "str", TRUE, JNull),
     Def("description", "scalar", "str", TRUE, JNull),
     Def("color", "scalar", "str", TRUE, JNull),
     Def("archived", "scalar", "bool", TRUE, JNull)>>,
   from_json |-> <<>>,
   construct |-> "none", reads |-> <<>>]

\* models.py 570-596: class Label
Label ==
  [name |-> "Label",
   fields |-> <<
     Req("id", "scalar", "int", FALSE),
     Req("name", "scalar", "str", FALSE),
     Req("global_id", "scalar", "str", FALSE),
     Def("external_id", "scalar", "str", TRUE, JNull),
     Def("app_url", "scalar", "str", TRUE, JNull),
     Def("archived", "scalar", "bool", FALSE, JBool(FALSE)),
     Def("color", "scalar", "str", TRUE, JNull),
     Def("created_at", "datetime", "datetime", TRUE, JNull),
     Def("updated_at", "datetime", "datetime", TRUE, JNull),
     Def("description", "scalar", "str", TRUE, JNull),
     Def("entity_type", "scalar", "str", FALSE, JStr("label")),
     Def("stats", "any", "Any", TRUE, JNull)>>,
   from_json |-> <<
     Date("created_at"),
     Date("updated_at")>>,
   construct |-> "kwargs", reads |-> <<>>]

\* models.py 599-603: class CreateLinkedFilesInput
CreateLinkedFilesInput ==
  [name |-> "CreateLinkedFilesInput",
   fields |-> <<
     Req("name", "scalar", "str", FALSE),
     Req("type", "scalar", "str", FALSE),
     Req("url", "scalar", "str", FALSE)>>,
   from_json |-> <<>>,
   construct |-> "none", reads |-> <<>>]

\* models.py 606-611: class UpdatedLinkedFilesInput
UpdatedLinkedFilesInput ==
  [name |-> "UpdatedLinkedFilesInput",
   fields |-> <<
     Def("name", "scalar", "str", TRUE, JNull),
     Def("type", "scalar", "str", TRUE, JNull),
     Def("url", "scalar", "str", TRUE, JNull),
     Def("uploader_id", "scalar", "str", TRUE, JNull)>>,
   from_json |-> <<>>,
   construct |-> "none", reads |-> <<>>]

\* models.py 614-639: class LinkedFiles
LinkedFiles ==
  [name |-> "LinkedFiles",
   fields |-> <<
     Req("id", "scalar", "int", FALSE),
     Def("global_id", "scalar", "str", TRUE, JNull),
     Def("name", "scalar", "str", TRUE, JNull),
     Def("content_type", "scalar", "str", TRUE, JNull),
     Def("created_at", "datetime", "datetime", TRUE, JNull),
     Def("updated_at", "datetime", "datetime", TRUE, JNull),
     Def("description", "scalar", "str", TRUE, JNull),
     Def("entity_type", "scalar", "str", FALSE, JStr("linked-file")),
     Def("group_mention_ids", "list", "str", TRUE, JList(<<>>)),
     Def("member_mention_ids", "list", "str", TRUE, JList(<<>>)),
     Def("mention_ids", "list", "str", TRUE, JList(<<>>)),
     Def("story_ids", "list", "int", TRUE, JList(<<>>)),
     Def("url", "scalar", "str", TRUE, JNull),
     Def("size", "scalar", "int", TRUE, JNull),
     Def("thumbnail_url", "scalar", "str", TRUE, JNull),
     Def("filename", "scalar", "str", TRUE, JNull),
     Def("type", "scalar", "str", TRUE, JNull),
     Def("uploader_id", "scalar", "str", TRUE, JNull)>>,
   from_json |-> <<>>,
   construct |-> "kwargs", reads |-> <<>>]

\* models.py 642-644: class CreateFileInput
CreateFileInput ==
  [name |-> "CreateFileInput",
   fields |-> <<
     Req("name", "scalar", "str", FALSE)>>,
   from_json |-> <<>>,
   construct |-> "none", reads |-> <<>>]

\* models.py 647-670: class File
File ==
  [name |-> "File",
   fields |-> <<
     Req("id", "scalar", "int", FALSE),
     Req("name", "scalar", "str", FALSE),
     Req("content_type", "scalar", "str", FALSE),
     Req("created_at", "datetime", "datetime", FALSE),
     Req("updated_at", "datetime", "datetime", FALSE),
     Req("description", "scalar", "str", FALSE),
     Req("uploader_id", "scalar", "str", FALSE),
     Req("url", "scalar", "str", FALSE),
     Req("size", "scalar", "int", FALSE),
     Req("filename", "scalar", "str", FALSE),
     Def("entity_type", "scalar", "str", FALSE, JStr("file")),
     Def("external_id", "scalar", "str", TRUE, JNull),
     Def("group_mention_ids", "list", "str", TRUE, JList(<<>>)),
     Def("member_mention_ids", "list", "str", TRUE, JList(<<>>)),
     Def("mention_ids", "list", "str", TRUE, JList(<<>>)),
     Def("story_link_id", "scalar", "int", TRUE, JNull),
     Def("story_ids", "list", "int", TRUE, JList(<<>>)),
     Def("thumbnail_url", "scalar", "str", TRUE, JNull)>>,
   from_json |-> <<>>,
   construct |-> "kwargs", reads |-> <<>>]

\* models.py 673-690: class Profile
Profile ==
  [name |-> "Profile",
   fields |-> <<
     Req("id", "scalar", "str", FALSE),
     Req("name", "scalar", "str", FALSE),
     Req("mention_name", "scalar", "str", FALSE),
     Req("is_owner", "scalar", "bool", FALSE),
     Req("email_address", "scalar", "str", FALSE),
     Req("deactivated", "scalar", "bool", FALSE),
     Def("gravatar_hash", "scalar", "str", TRUE, JNull),
     Def("display_icon", "any", "Any", TRUE, JNull),
     Def("entity_type", "scalar", "str", FALSE, JStr("profile")),
     Def("two_factor_auth_activated", "scalar", "bool", TRUE, JNull),
     Def("is_agent", "scalar", "bool", TRUE, JNull)>>,
   from_json |-> <<>>,
   construct |-> "kwargs", reads |-> <<>>]

\* models.py 693-713: class Member
Member ==
  [name |-> "Member",
   fields |-> <<
     Req("id", "scalar", "str", FALSE),
     Def("state", "scalar", "str", TRUE, JNull),
     Def("entity_type", "scalar", "str", FALSE, JStr("member")),
     Def("global_id", "scalar", "str", TRUE, JNull),
     Def("profile", "record", "Profile", TRUE, JNull),
     Def("role", "scalar", "str", TRUE, JNull),
     Def("disabled", "scalar", "bool", TRUE, JNull),
     Def("mention_name", "scalar", "str", TRUE, JNull),
     Def("created_at", "datetime", "datetime", TRUE, JNull),
     Def("updated_at", "datetime", "datetime", TRUE, JNull)>>,
   from_json |-> <<
     One("profile", "Profile", "present")>>,
   construct |-> "annotated", reads |-> <<>>]

\* models.py 716-718: class CreateObjectiveInput
CreateObjectiveInput ==
  [name |-> "CreateObjectiveInput",
   fields |-> <<
     Req("name", "scalar", "str", FALSE)>>,
   from_json |-> <<>>,
   construct |-> "none", reads |-> <<>>]

\* models.py 721-723: class UpdateObjectiveInput
UpdateObjectiveInput ==
  [name |-> "UpdateObjectiveInput",
   fields |-> <<
     Def("name", "scalar", "str", TRUE, JNull)>>,
   from_json |-> <<>>,
   construct |-> "none", reads |-> <<>>]

\* models.py 726-749: class Objective
Objective ==
  [name |-> "Objective",
   fields |-> <<
     Req("id", "scalar", "int", FALSE),
     Req("global_id", "scalar", "str", FALSE),
     Def("name", "scalar", "str", TRUE, JNull),
     Def("description", "scalar", "str", TRUE, JNull),
     Def("archived", "scalar", "bool", TRUE, JNull),
     Def("started", "scalar", "bool", TRUE, JNull),
     Def("completed", "scalar", "bool", TRUE, JNull),
     Def("entity_type", "scalar", "str", FALSE, JStr("objective")),
     Def("app_url", "scalar", "str", TRUE, JNull),
     Def("position", "scalar", "int", TRUE, JNull),
     Def("created_at", "datetime", "datetime", TRUE, JNull),
     Def("updated_at", "datetime", "datetime", TRUE, JNull),
     Def("started_at", "datetime", "datetime", TRUE, JNull),
     Def("completed_at", "datetime", "datetime", TRUE, JNull),
     Def("started_at_override", "datetime", "datetime", TRUE, JNull),
     Def("completed_at_override", "datetime", "datetime", TRUE, JNull),
     Def("state", "scalar", "str", TRUE, JNull),
     Def("stats", "any", "Any", TRUE, JNull)>>,
   from_json |-> <<>>,
   construct |-> "kwargs", reads |-> <<>>]

\* models.py 752-766: class Repository
Repository ==
  [name |-> "Repository",
   fields |-> <<
     Req("type", "scalar", "str", FALSE),
     Def("id", "scalar", "int", TRUE, JNull),
     Def("name", "scalar", "str", TRUE, JNull),
     Def("entity_type", "scalar", "str", FALSE, JStr("repository")),
     Def("url", "scalar", "str", TRUE, JNull),
     Def("full_name", "scalar", "str", TRUE, JNull),
     Def("external_id", "scalar", "str", TRUE, JNull),
     Def("created_at", "datetime", "datetime", TRUE, JNull),
     Def("updated_at", "datetime", "datetime", TRUE, JNull)>>,
   from_json |-> <<>>,
   construct |-> "kwargs", reads |-> <<>>]

\* models.py 769-787: class WorkflowState
WorkflowState ==
  [name |-> "WorkflowState",
   fields |-> <<
     Req("id", "scalar", "int", FALSE),
     Req("global_id", "scalar", "str", FALSE),
     Req("name", "scalar", "str", FALSE),
     Req("description", "scalar", "str", FALSE),
     Req("verb", "scalar", "str", FALSE),
     Req("num_stories", "scalar", "int", FALSE),
     Req("num_story_templates", "scalar", "int", FALSE),
     Req("position", "scalar", "int", FALSE),
     Req("type", "scalar", "str", FALSE),
     Req("created_at", "datetime", "datetime", FALSE),
     Req("updated_at", "datetime", "datetime", FALSE),
     Def("entity_type", "scalar", "str", FALSE, JStr("workflow-state")),
     Def("color", "scalar", "str", TRUE, JNull)>>,
   from_json |-> <<>>,
   construct |-> "kwargs", reads |-> <<>>]

\* models.py 790-813: class Workflow
Workflow ==
  [name |-> "Workflow",
   fields |-> <<
     Req("id", "scalar", "int", FALSE),
     Req("name", "scalar", "str", FALSE),
     Req("description", "scalar", "str", FALSE),
     Def("entity_type", "scalar", "str", FALSE, JStr("workflow")),
     Def("auto_assign_owner", "scalar", "bool", TRUE, JNull),
     Def("project_ids", "list", "int", TRUE, JList(<<>>)),
     Def("created_at", "datetime", "datetime", TRUE, JNull),
     Def("updated_at", "datetime", "datetime", TRUE, JNull),
     Def("default_state_id", "scalar", "int", TRUE, JNull),
     Def("states", "record_list", "WorkflowState", FALSE, JList(<<>>)),
     Def("team_id", "scalar", "int", TRUE, JNull)>>,
   from_json |-> <<
     Each("states", "WorkflowState")>>,
   construct |-> "kwargs", reads |-> <<>>]

\* models.py 816-821: class CreateCategoryInput
CreateCategoryInput ==
  [name |-> "CreateCategoryInput",
   fields |-> <<
     Req("name", "scalar", "str", FALSE),
     Def("type", "scalar", "str", FALSE, JStr("milestone")),
     Def("color", "scalar", "str", TRUE, JNull),
     Def("external_id", "scalar", "str", TRUE, JNull)>>,
   from_json |-> <<>>,
   construct |-> "none", reads |-> <<>>]

\* models.py 824-826: class UpdateCategoryInput
UpdateCategoryInput ==
  [name |-> "UpdateCategoryInput",
   fields |-> <<
     Def("name", "scalar", "str", TRUE, JNull)>>,
   from_json |-> <<>>,
   construct |-> "none", reads |-> <<>>]

\* models.py 829-854: class Category
Category ==
  [name |-> "Category",
   fields |-> <<
     Req("id", "scalar", "int", FALSE),
     Req("global_id", "scalar", "str", FALSE),
     Req("type", "scalar", "str", FALSE),
     Req("archived", "scalar", "bool", FALSE),
     Req("color", "scalar", "str", FALSE),
     Req("created_at", "datetime", "datetime", FALSE),
     Req("updated_at", "datetime", "datetime", FALSE),
     Req("name", "scalar", "str", FALSE),
     Def("external_id", "scalar", "str", TRUE, JNull),
     Def("entity_type", "scalar", "str", FALSE, JStr("category"))>>,
   from_json |-> <<
     Date("created_at"),
     Date("updated_at")>>,
   construct |-> "kwargs", reads |-> <<>>]

\* models.py 857-865: class CreateProjectInput
CreateProjectInput ==
  [name |-> "CreateProjectInput",
   fields |-> <<
     Req("name", "scalar", "str", FALSE),
     Def("abbreviation", "scalar", "str", TRUE, JNull),
     Def("color", "scalar", "str", TRUE, JNull),
     Def("description", "scalar", "str", TRUE, JNull),
     Def("external_id", "scalar", "str", TRUE, JNull),
     Def("follower_ids", "list", "str", TRUE, JNull),
     Def("team_id", "scalar", "int", TRUE, JNull)>>,
   from_json |-> <<>>,
   construct |-> "none", reads |-> <<>>]

\* models.py 868-871: class UpdateProjectInput
UpdateProjectInput ==
  [name |-> "UpdateProjectInput",
   fields |-> <<
     Def("name", "scalar", "str", TRUE, JNull),
     Def("description", "scalar", "str", TRUE, JNull)>>,
   from_json |-> <<>>,
   construct |-> "none", reads |-> <<>>]

\* models.py 874-908: class Project
Project ==
  [name |-> "Project",
   fields |-> <<
     Req("id", "scalar", "int", FALSE),
     Req("name", "scalar", "str", FALSE),
     Def("app_url", "scalar", "str", TRUE, JNull),
     Def("archived", "scalar", "bool", FALSE, JBool(FALSE)),
     Def("entity_type", "scalar", "str", FALSE, JStr("project")),
     Def("color", "scalar", "str", TRUE, JNull),
     Def("abbreviation", "scalar", "str", TRUE, JNull),
     Def("description", "scalar", "str", TRUE, JNull),
     Def("created_at", "datetime", "datetime", TRUE, JNull),
     Def("updated_at", "datetime", "datetime", TRUE, JNull),
     Def("follower_ids", "list", "str", FALSE, JList(<<>>)),
     Def("external_id", "scalar", "str", TRUE, JNull),
     Def("team_id", "scalar", "int", TRUE, JNull),
     Def("iteration_length", "scalar", "int", TRUE, JNull),
     Def("start_time", "datetime", "datetime", TRUE, JNull),
     Def("stats", "dict", "dict[str, Any]", TRUE, JNull)>>,
   from_json |-> <<
     Date("created_at"),
     Date("updated_at"),
     Date("start_time")>>,
   construct |-> "kwargs", reads |-> <<>>]

\* models.py 911-915: class SearchInputs
SearchInputs ==
  [name |-> "SearchInputs",
   fields |-> <<
     Req("query", "any", "Any", FALSE),
     Def("detail", "scalar", "str", FALSE, JStr("slim")),
     Def("page_size", "scalar", "int", FALSE, JInt(25))>>,
   from_json |-> <<>>,
   construct |-> "none", reads |-> <<>>]

\* models.py 918-928: class SearchStoryResult
SearchStoryResult ==
  [name |-> "SearchStoryResult",
   fields |-> <<
     Req("data", "record_list", "Story", FALSE),
     Req("total", "scalar", "int", FALSE),
     Def("next", "scalar", "str", TRUE, JNull)>>,
   from_json |-> <<
     Each("data", "Story")>>,
   construct |-> "kwargs", reads |-> <<>>]

\* models.py 962-971: class StoryReaction
StoryReaction ==
  [name |-> "StoryReaction",
   fields |-> <<
     Req("emoji", "scalar", "str", FALSE),
     Req("permission_ids", "list", "str", FALSE)>>,
   from_json |-> <<>>,
   construct |-> "kwargs", reads |-> <<>>]

\* models.py 974-1016: class StoryComment
StoryComment ==
  [name |-> "StoryComment",
   fields |-> <<
     Req("id", "scalar", "int", FALSE),
     Req("text", "scalar", "str", TRUE),
     Req("author_id", "scalar", "str", TRUE),
     Req("created_at", "datetime", "datetime", FALSE),
     Req("entity_type", "scalar", "str", FALSE),
     Req("story_id", "scalar", "int", FALSE),
     Req("position", "scalar", "int", FALSE),
     Def("app_url", "scalar", "str", TRUE, JNull),
     Def("deleted", "scalar", "bool", FALSE, JBool(FALSE)),
     Def("updated_at", "datetime", "datetime", TRUE, JNull),
     Def("external_id", "scalar", "str", TRUE, JNull),
     Def("parent_id", "scalar", "int", TRUE, JNull),
     Def("blocker", "scalar", "bool", FALSE, JBool(FALSE)),
     Def("unblocks_parent", "scalar", "bool", FALSE, JBool(FALSE)),
     Def("linked_to_slack", "scalar", "bool", FALSE, JBool(FALSE)),
     Def("mention_ids", "list", "str", FALSE, JList(<<>>)),
     Def("member_mention_ids", "list", "str", FALSE, JList(<<>>)),
     Def("group_mention_ids", "list", "str", FALSE, JList(<<>>)),
     Def("reactions", "record_list", "StoryReaction", FALSE, JList(<<>>))>>,
   from_json |-> <<
     Date("created_at"),
     Date("updated_at"),
     Each("reactions", "StoryReaction")>>,
   construct |-> "kwargs", reads |-> <<>>]

\* models.py 1019-1028: class CreateStoryCommentInput
CreateStoryCommentInput ==
  [name |-> "CreateStoryCommentInput",
   fields |-> <<
     Req("text", "scalar", "str", FALSE),
     Def("author_id", "scalar", "str", TRUE, JNull),
     Def("created_at", "datetime", "datetime", TRUE, JNull),
     Def("updated_at", "datetime", "datetime", TRUE, JNull),
     Def("external_id", "scalar", "str", TRUE, JNull),
     Def("parent_id", "scalar", "int", TRUE, JNull)>>,
   from_json |-> <<>>,
   construct |-> "none", reads |-> <<>>]

\* models.py 1031-1035: class UpdateStoryCommentInput
UpdateStoryCommentInput ==
  [name |-> "UpdateStoryCommentInput",
   fields |-> <<
     Req("text", "scalar", "str", FALSE)>>,
   from_json |-> <<>>,
   construct |-> "none", reads |-> <<>>]

\* models.py 1043-1079: class ThreadedComment
ThreadedComment ==
  [name |-> "ThreadedComment",
   fields |-> <<
     Req("id", "scalar", "int", FALSE),
     Req("text", "scalar", "str", FALSE),
     Req("author_id", "scalar", "str", FALSE),
     Req("created_at", "datetime", "datetime", FALSE),
     Req("entity_type", "scalar", "str", FALSE),
     Def("app_url", "scalar", "str", TRUE, JNull),
     Def("deleted", "scalar", "bool", FALSE, JBool(FALSE)),
     Def("updated_at", "datetime", "datetime", TRUE, JNull),
     Def("external_id", "scalar", "str", TRUE, JNull),
     Def("mention_ids", "list", "str", FALSE, JList(<<>>)),
     Def("member_mention_ids", "list", "str", FALSE, JList(<<>>)),
     Def("group_mention_ids", "list", "str", FALSE, JList(<<>>)),
     Def("comments", "record_list", "ThreadedComment", FALSE, JList(<<>>))>>,
   from_json |-> <<
     Date("created_at"),
     Date("updated_at"),
     Each("comments", "ThreadedComment")>>,
   construct |-> "kwargs", reads |-> <<>>]

\* models.py 1082-1092: class MilestoneStats
MilestoneStats ==
  [name |-> "MilestoneStats",
   fields |-> <<
     Req("num_related_documents", "scalar", "int", FALSE),
     Def("average_cycle_time", "scalar", "int", TRUE, JNull),
     Def("average_lead_time", "scalar", "int", TRUE, JNull)>>,
   from_json |-> <<>>,
   construct |-> "kwargs", reads |-> <<>>]

\* models.py 1095-1162: class Milestone
Milestone ==
  [name |-> "Milestone",
   fields |-> <<
     Req("id", "scalar", "int", FALSE),
     Req("name", "scalar", "str", FALSE),
     Req("description", "scalar", "str", FALSE),
     Req("state", "scalar", "str", FALSE),
     Req("position", "scalar", "int", FALSE),
     Req("created_at", "datetime", "datetime", FALSE),
     Req("updated_at", "datetime", "datetime", FALSE),
     Req("entity_type", "scalar", "str", FALSE),
     Req("app_url", "scalar", "str", FALSE),
     Req("global_id", "scalar", "str", FALSE),
     Req("stats", "record", "MilestoneStats", FALSE),
     Def("archived", "scalar", "bool", FALSE, JBool(FALSE)),
     Def("started", "scalar", "bool", FALSE, JBool(FALSE)),
     Def("completed", "scalar", "bool", FALSE, JBool(FALSE)),
     Def("started_at", "datetime", "datetime", TRUE, JNull),
     Def("completed_at", "datetime", "datetime", TRUE, JNull),
     Def("started_at_override", "datetime", "datetime", TRUE, JNull),
     Def("completed_at_override", "datetime", "datetime", TRUE, JNull),
     Def("categories", "record_list", "Category", FALSE, JList(<<>>)),
     Def("key_result_ids", "list", "str", FALSE, JList(<<>>))>>,
   from_json |-> <<
     Date("created_at"),
     Date("updated_at"),
     Date("started_at"),
     Date("completed_at"),
     Date("started_at_override"),
     Date("completed_at_override"),
     One("stats", "MilestoneStats", "present"),
     Each("categories", "Category")>>,
   construct |-> "kwargs", reads |-> <<>>]

\* models.py 1165-1172: class CreateCategoryParams
CreateCategoryParams ==
  [name |-> "CreateCategoryParams",
   fields |-> <<
     Def("name", "scalar", "str", TRUE, JNull),
     Def("color", "scalar", "str", TRUE, JNull),
     Def("external_id", "scalar", "str", TRUE, JNull),
     Def("id", "scalar", "int", TRUE, JNull)>>,
   from_json |-> <<>>,
   construct |-> "none", reads |-> <<>>]

\* models.py 1175-1184: class CreateMilestoneInput
CreateMilestoneInput ==
  [name |-> "CreateMilestoneInput",
   fields |-> <<
     Req("name", "scalar", "str", FALSE),
     Def("description", "scalar", "str", TRUE, JNull),
     Def("state", "scalar", "str", TRUE, JStr("to do")),
     Def("started_at_override", "datetime", "datetime", TRUE, JNull),
     Def("completed_at_override", "datetime", "datetime", TRUE, JNull),
     Def("categories", "record_list", "CreateCategoryParams", FALSE, JList(<<>>))>>,
   from_json |-> <<>>,
   construct |-> "none", reads |-> <<>>]

\* models.py 1187-1199: class UpdateMilestoneInput
UpdateMilestoneInput ==
  [name |-> "UpdateMilestoneInput",
   fields |-> <<
     Def("name", "scalar", "str", TRUE, JNull),
     Def("description", "scalar", "str", TRUE, JNull),
     Def("state", "scalar", "str", TRUE, JNull),
     Def("archived", "scalar", "bool", TRUE, JNull),
     Def("started_at_override", "datetime", "datetime", TRUE, JNull),
     Def("completed_at_override", "datetime", "datetime", TRUE, JNull),
     Def("categories", "record_list", "CreateCategoryParams", TRUE, JNull),
     Def("before_id", "scalar", "int", TRUE, JNull),
     Def("after_id", "scalar", "int", TRUE, JNull)>>,
   from_json |-> <<>>,
   construct |-> "none", reads |-> <<>>]

\* models.py 1202-1215: class CustomFieldEnumValue
CustomFieldEnumValue ==
  [name |-> "CustomFieldEnumValue",
   fields |-> <<
     Req("id", "scalar", "str", FALSE),
     Req("value", "scalar", "str", FALSE),
     Req("position", "scalar", "int", FALSE),
     Def("entity_type", "scalar", "str", FALSE, JStr("custom-field-enum-value")),
     Def("color_key", "scalar", "str", TRUE, JNull),
     Def("enabled", "scalar", "bool", FALSE, JBool(TRUE))>>,
   from_json |-> <<>>,
   construct |-> "kwargs", reads |-> <<>>]

\* models.py 1218-1255: class CustomField
CustomField ==
  [name |-> "CustomField",
   fields |-> <<
     Req("id", "scalar", "str", FALSE),
     Req("name", "scalar", "str", FALSE),
     Req("field_type", "scalar", "str", FALSE),
     Req("position", "scalar", "int", FALSE),
     Req("enabled", "scalar", "bool", FALSE),
     Req("created_at", "datetime", "datetime", FALSE),
     Req("updated_at", "datetime", "datetime", FALSE),
     Def("entity_type", "scalar", "str", FALSE, JStr("custom-field")),
     Def("description", "scalar", "str", TRUE, JNull),
     Def("icon_set_identifier", "scalar", "str", TRUE, JNull),
     Def("canonical_name", "scalar", "str", TRUE, JNull),
     Def("fixed_position", "scalar", "bool", FALSE, JBool(FALSE)),
     Def("story_types", "list", "str", FALSE, JList(<<>>)),
     Def("values", "record_list", "CustomFieldEnumValue", FALSE, JList(<<>>))>>,
   from_json |-> <<
     Date("created_at"),
     Date("updated_at"),
     Each("values", "CustomFieldEnumValue")>>,
   construct |-> "kwargs", reads |-> <<>>]

\* models.py 1258-1265: class UpdateCustomFieldEnumValue
UpdateCustomFieldEnumValue ==
  [name |-> "UpdateCustomFieldEnumValue",
   fields |-> <<
     Def("id", "scalar", "str", TRUE, JNull),
     Def("value", "scalar", "str", TRUE, JNull),
     Def("color_key", "scalar", "str", TRUE, JNull),
     Def("enabled", "scalar", "bool", TRUE, JNull)>>,
   from_json |-> <<>>,
   construct |-> "none", reads |-> <<>>]

\* models.py 1268-1278: class UpdateCustomFieldInput
UpdateCustomFieldInput ==
  [name |-> "UpdateCustomFieldInput",
   fields |-> <<
     Def("name", "scalar", "str", TRUE, JNull),
     Def("description", "scalar", "str", TRUE, JNull),
     Def("enabled", "scalar", "bool", TRUE, JNull),
     Def("icon_set_identifier", "scalar", "str", TRUE, JNull),
     Def("values", "record_list", "UpdateCustomFieldEnumValue", TRUE, JNull),
     Def("before_id", "scalar", "str", TRUE, JNull),
     Def("after_id", "scalar", "str", TRUE, JNull)>>,
   from_json |-> <<>>,
   construct |-> "none", reads |-> <<>>]

\* models.py 1286-1301: class DocSlim
DocSlim ==
  [name |-> "DocSlim",
   fields |-> <<
     Req("id", "scalar", "str", FALSE),
     Req("title", "scalar", "str", TRUE),
     Req("app_url", "scalar", "str", FALSE)>>,
   from_json |-> <<>>,
   construct |-> "explicit", reads |-> <<<<"id", "subscript">>, <<"title", "get">>, <<"app_url", "subscript">>>>]

\* models.py 1304-1328: class Doc
Doc ==
  [name |-> "Doc",
   fields |-> <<
     Req("id", "scalar", "str", FALSE),
     Req("title", "scalar", "str", TRUE),
     Req("content_markdown", "scalar", "str", TRUE),
     Req("app_url", "scalar", "str", FALSE),
     Req("created_at", "datetime", "datetime", FALSE),
     Req("updated_at", "datetime", "datetime", FALSE),
     Req("archived", "scalar", "bool", FALSE),
     Def("content_html", "scalar", "str", TRUE, JNull)>>,
   from_json |-> <<
     Date("created_at"),
     Date("updated_at")>>,
   construct |-> "kwargs", reads |-> <<>>]

\* models.py 1331-1337: class CreateDocInput
CreateDocInput ==
  [name |-> "CreateDocInput",
   fields |-> <<
     Req("title", "scalar", "str", FALSE),
     Req("content", "scalar", "str", FALSE),
     Def("content_format", "scalar", "str", TRUE, JNull)>>,
   from_json |-> <<>>,
   construct |-> "none", reads |-> <<>>]

\* models.py 1340-1346: class UpdateDocInput
UpdateDocInput ==
  [name |-> "UpdateDocInput",
   fields |-> <<
     Def("title", "scalar", "str", TRUE, JNull),
     Def("content", "scalar", "str", TRUE, JNull),
     Def("content_format", "scalar", "str", TRUE, JNull)>>,
   from_json |-> <<>>,
   construct |-> "none", reads |-> <<>>]

\* models.py 1354-1386: class StoryContents
StoryContents ==
  [name |-> "StoryContents",
   fields |-> <<
     Def("entity_type", "scalar", "str", TRUE, JNull),
     Def("name", "scalar", "str", TRUE, JNull),
     Def("description", "scalar", "str", TRUE, JNull),
     Def("story_type", "scalar", "str", TRUE, JNull),
     Def("epic_id", "scalar", "int", TRUE, JNull),
     Def("iteration_id", "scalar", "int", TRUE, JNull),
     Def("group_id", "scalar", "str", TRUE, JNull),
     Def("workflow_state_id", "scalar", "int", TRUE, JNull),
     Def("project_id", "scalar", "int", TRUE, JNull),
     Def("estimate", "scalar", "int", TRUE, JNull),
     Def("deadline", "datetime", "datetime", TRUE, JNull),
     Def("follower_ids", "list", "str", FALSE, JList(<<>>)),
     Def("owner_ids", "list", "str", FALSE, JList(<<>>)),
     Def("label_ids", "list", "int", FALSE, JList(<<>>)),
     Def("labels", "list", "dict[str, Any]", FALSE, JList(<<>>)),
     Def("custom_fields", "list", "dict[str, Any]", FALSE, JList(<<>>)),
     Def("external_links", "list", "str", FALSE, JList(<<>>)),
     Def("tasks", "list", "dict[str, Any]", FALSE, JList(<<>>)),
     Def("sub_tasks", "list", "dict[str, Any]", FALSE, JList(<<>>)),
     Def("linked_files", "list", "dict[str, Any]", FALSE, JList(<<>>)),
     Def("files", "list", "dict[str, Any]", FALSE, JList(<<>>))>>,
   from_json |-> <<
     Date("deadline")>>,
   construct |-> "kwargs", reads |-> <<>>]

\* models.py 1389-1411: class CreateStoryContents
CreateStoryContents ==
  [name |-> "CreateStoryContents",
   fields |-> <<
     Def("name", "scalar", "str", TRUE, JNull),
     Def("description", "scalar", "str", TRUE, JNull),
     Def("story_type", "scalar", "str", TRUE, JNull),
     Def("epic_id", "scalar", "int", TRUE, JNull),
     Def("iteration_id", "scalar", "int", TRUE, JNull),
     Def("group_id", "scalar", "str", TRUE, JNull),
     Def("workflow_state_id", "scalar", "int", TRUE, JNull),
     Def("project_id", "scalar", "int", TRUE, JNull),
     Def("estimate", "scalar", "int", TRUE, JNull),
     Def("deadline", "datetime", "datetime", TRUE, JNull),
     Def("follower_ids", "list", "str", FALSE, JList(<<>>)),
     Def("owner_ids", "list", "str", FALSE, JList(<<>>)),
     Def("labels", "list", "dict[str, Any]", FALSE, JList(<<>>)),
     Def("custom_fields", "list", "dict[str, Any]", FALSE, JList(<<>>)),
     Def("external_links", "list", "str", FALSE, JList(<<>>)),
     Def("tasks", "list", "dict[str, Any]", FALSE, JList(<<>>)),
     Def("sub_tasks", "list", "dict[str, Any]", FALSE, JList(<<>>)),
     Def("file_ids", "list", "int", FALSE, JList(<<>>)),
     Def("linked_file_ids", "list", "int", FALSE, JList(<<>>))>>,
   from_json |-> <<>>,
   construct |-> "none", reads |-> <<>>]

\* models.py 1414-1436: class UpdateStoryContents
UpdateStoryContents ==
  [name |-> "UpdateStoryContents",
   fields |-> <<
     Def("name", "scalar", "str", TRUE, JNull),
     Def("description", "scalar", "str", TRUE, JNull),
     Def("story_type", "scalar", "str", TRUE, JNull),
     Def("epic_id", "scalar", "int", TRUE, JNull),
     Def("iteration_id", "scalar", "int", TRUE, JNull),
     Def("group_id", "scalar", "str", TRUE, JNull),
     Def("workflow_state_id", "scalar", "int", TRUE, JNull),
     Def("project_id", "scalar", "int", TRUE, JNull),
     Def("estimate", "scalar", "int", TRUE, JNull),
     Def("deadline", "datetime", "datetime", TRUE, JNull),
     Def("follower_ids", "list", "str", FALSE, JList(<<>>)),
     Def("owner_ids", "list", "str", FALSE, JList(<<>>)),
     Def("labels", "list", "dict[str, Any]", FALSE, JList(<<>>)),
     Def("custom_fields", "list", "dict[str, Any]", FALSE, JList(<<>>)),
     Def("external_links", "list", "str", FALSE, JList(<<>>)),
     Def("tasks", "list", "dict[str, Any]", FALSE, JList(<<>>)),
     Def("sub_tasks", "list", "dict[str, Any]", FALSE, JList(<<>>)),
     Def("file_ids", "list", "int", FALSE, JList(<<>>)),
     Def("linked_file_ids", "list", "int", FALSE, JList(<<>>))>>,
   from_json |-> <<>>,
   construct |-> "none", reads |-> <<>>]

\* models.py 1439-1462: class EntityTemplate
EntityTemplate ==
  [name |-> "EntityTemplate",
   fields |-> <<
     Req("id", "scalar", "str", FALSE),
     Req("name", "scalar", "str", FALSE),
     Req("author_id", "scalar", "str", FALSE),
     Req("created_at", "datetime", "datetime", FALSE),
     Req("updated_at", "datetime", "datetime", FALSE),
     Req("last_used_at", "datetime", "datetime", FALSE),
     Def("entity_type", "scalar", "str", FALSE, JStr("entity-template")),
     Def("story_contents", "record", "StoryContents", TRUE, JNull)>>,
   from_json |-> <<
     Date("created_at"),
     Date("updated_at"),
     Date("last_used_at"),
     One("story_contents", "StoryContents", "truthy")>>,
   construct |-> "kwargs", reads |-> <<>>]

\* models.py 1465-1471: class CreateEntityTemplateInput
CreateEntityTemplateInput ==
  [name |-> "CreateEntityTemplateInput",
   fields |-> <<
     Req("name", "scalar", "str", FALSE),
     Req("story_contents", "dict", "dict[str, Any]", FALSE),
     Def("author_id", "scalar", "str", TRUE, JNull)>>,
   from_json |-> <<>>,
   construct |-> "none", reads |-> <<>>]

\* models.py 1474-1479: class UpdateEntityTemplateInput
UpdateEntityTemplateInput ==
  [name |-> "UpdateEntityTemplateInput",
   fields |-> <<
     Def("name", "scalar", "str", TRUE, JNull),
     Def("story_contents", "dict", "dict[str, Any]", TRUE, JNull)>>,
   from_json |-> <<>>,
   construct |-> "none", reads |-> <<>>]

\* models.py 1487-1509: class Health
Health ==
  [name |-> "Health",
   fields |-> <<
     Req("id", "scalar", "str", TRUE),
     Req("status", "scalar", "str", FALSE),
     Def("entity_type", "scalar", "str", FALSE, JStr("health")),
     Def("author_id", "scalar", "str", TRUE, JNull),
     Def("epic_id", "scalar", "int", TRUE, JNull),
     Def("objective_id", "scalar", "int", TRUE, JNull),
     Def("text", "scalar", "str", TRUE, JNull),
     Def("created_at", "datetime", "datetime", TRUE, JNull),
     Def("updated_at", "datetime", "datetime", TRUE, JNull)>>,
   from_json |-> <<
     Date("created_at"),
     Date("updated_at")>>,
   construct |-> "kwargs", reads |-> <<>>]

\* models.py 1512-1517: class CreateHealthInput
CreateHealthInput ==
  [name |-> "CreateHealthInput",
   fields |-> <<
     Req("status", "scalar", "str", FALSE),
     Def("text", "scalar", "str", TRUE, JNull)>>,
   from_json |-> <<>>,
   construct |-> "none", reads |-> <<>>]

\* models.py 1520-1525: class UpdateHealthInput
UpdateHealthInput ==
  [name |-> "UpdateHealthInput",
   fields |-> <<
     Def("status", "scalar", "str", TRUE, JNull),
     Def("text", "scalar", "str", TRUE, JNull)>>,
   from_json |-> <<>>,
   construct |-> "none", reads |-> <<>>]

\* models.py 1533-1596: class EpicSlim
EpicSlim ==
  [name |-> "EpicSlim",
   fields |-> <<
     Req("id", "scalar", "int", FALSE),
     Req("name", "scalar", "str", FALSE),
     Req("global_id", "scalar", "str", FALSE),
     Req("app_url", "scalar", "str", FALSE),
     Def("archived", "scalar", "bool", FALSE, JBool(FALSE)),
     Def("started", "scalar", "bool", FALSE, JBool(FALSE)),
     Def("completed", "scalar", "bool", FALSE, JBool(FALSE)),
     Def("entity_type", "scalar", "str", FALSE, JStr("epic")),
     Def("description", "scalar", "str", TRUE, JNull),
     Def("state", "scalar", "str", TRUE, JNull),
     Def("epic_state_id", "scalar", "int", TRUE, JNull),
     Def("milestone_id", "scalar", "int", TRUE, JNull),
     Def("objective_ids", "list", "int", FALSE, JList(<<>>)),
     Def("project_ids", "list", "int", FALSE, JList(<<>>)),
     Def("label_ids", "list", "int", FALSE, JList(<<>>)),
     Def("follower_ids", "list", "str", FALSE, JList(<<>>)),
     Def("owner_ids", "list", "str", FALSE, JList(<<>>)),
     Def("group_ids", "list", "str", FALSE, JList(<<>>)),
     Def("group_id", "scalar", "str", TRUE, JNull),
     Def("requested_by_id", "scalar", "str", TRUE, JNull),
     Def("deadline", "datetime", "datetime", TRUE, JNull),
     Def("planned_start_date", "datetime", "datetime", TRUE, JNull),
     Def("started_at", "datetime", "datetime", TRUE, JNull),
     Def("completed_at", "datetime", "datetime", TRUE, JNull),
     Def("started_at_override", "datetime", "datetime", TRUE, JNull),
     Def("completed_at_override", "datetime", "datetime", TRUE, JNull),
     Def("created_at", "datetime", "datetime", TRUE, JNull),
     Def("updated_at", "datetime", "datetime", TRUE, JNull),
     Def("position", "scalar", "int", TRUE, JNull),
     Def("stats", "dict", "dict[str, Any]", TRUE, JNull),
     Def("labels", "list", "dict[str, Any]", FALSE, JList(<<>>)),
     Def("associated_groups", "list", "dict[str, Any]", FALSE, JList(<<>>)),
     Def("external_id", "scalar", "str", TRUE, JNull),
     Def("productboard_id", "scalar", "str", TRUE, JNull),
     Def("productboard_url", "scalar", "str", TRUE, JNull),
     Def("productboard_name", "scalar", "str", TRUE, JNull),
     Def("productboard_plugin_id", "scalar", "str", TRUE, JNull),
     Def("stories_without_projects", "scalar", "int", TRUE, JNull),
     Def("mention_ids", "list", "str", FALSE, JList(<<>>)),
     Def("member_mention_ids", "list", "str", FALSE, JList(<<>>)),
     Def("group_mention_ids", "list", "str", FALSE, JList(<<>>))>>,
   from_json |-> <<
     Date("deadline"),
     Date("planned_start_date"),
     Date("started_at"),
     Date("completed_at"),
     Date("started_at_override"),
     Date("completed_at_override"),
     Date("created_at"),
     Date("updated_at")>>,
   construct |-> "kwargs", reads |-> <<>>]

\* models.py 1599-1674: class StorySlim
StorySlim ==
  [name |-> "StorySlim",
   fields |-> <<
     Req("id", "scalar", "int", FALSE),
     Req("name", "scalar", "str", FALSE),
     Req("global_id", "scalar", "str", FALSE),
     Req("app_url", "scalar", "str", FALSE),
     Def("entity_type", "scalar", "str", FALSE, JStr("story")),
     Def("story_type", "scalar", "str", FALSE, JStr("feature")),
     Def("archived", "scalar", "bool", FALSE, JBool(FALSE)),
     Def("started", "scalar", "bool", FALSE, JBool(FALSE)),
     Def("completed", "scalar", "bool", FALSE, JBool(FALSE)),
     Def("blocker", "scalar", "bool", FALSE, JBool(FALSE)),
     Def("blocked", "scalar", "bool", FALSE, JBool(FALSE)),
     Def("description", "scalar", "str", TRUE, JNull),
     Def("workflow_id", "scalar", "int", TRUE, JNull),
     Def("workflow_state_id", "scalar", "int", TRUE, JNull),
     Def("project_id", "scalar", "int", TRUE, JNull),
     Def("epic_id", "scalar", "int", TRUE, JNull),
     Def("iteration_id", "scalar", "int", TRUE, JNull),
     Def("parent_story_id", "scalar", "int", TRUE, JNull),
     Def("story_template_id", "scalar", "str", TRUE, JNull),
     Def("requested_by_id", "scalar", "str", TRUE, JNull),
     Def("group_id", "scalar", "str", TRUE, JNull),
     Def("estimate", "scalar", "int", TRUE, JNull),
     Def("position", "scalar", "int", TRUE, JNull),
     Def("deadline", "datetime", "datetime", TRUE, JNull),
     Def("started_at", "datetime", "datetime", TRUE, JNull),
     Def("completed_at", "datetime", "datetime", TRUE, JNull),
     Def("started_at_override", "datetime", "datetime", TRUE, JNull),
     Def("completed_at_override", "datetime", "datetime", TRUE, JNull),
     Def("created_at", "datetime", "datetime", TRUE, JNull),
     Def("updated_at", "datetime", "datetime", TRUE, JNull),
     Def("moved_at", "datetime", "datetime", TRUE, JNull),
     Def("external_id", "scalar", "str", TRUE, JNull),
     Def("label_ids", "list", "int", FALSE, JList(<<>>)),
     Def("follower_ids", "list", "str", FALSE, JList(<<>>)),
     Def("owner_ids", "list", "str", FALSE, JList(<<>>)),
     Def("task_ids", "list", "int", FALSE, JList(<<>>)),
     Def("file_ids", "list", "int", FALSE, JList(<<>>)),
     Def("linked_file_ids", "list", "int", FALSE, JList(<<>>)),
     Def("comment_ids", "list", "int", FALSE, JList(<<>>)),
     Def("previous_iteration_ids", "list", "int", FALSE, JList(<<>>)),
     Def("sub_task_story_ids", "list", "int", FALSE, JList(<<>>)),
     Def("external_links", "list", "str", FALSE, JList(<<>>)),
     Def("labels", "list", "dict[str, Any]", FALSE, JList(<<>>)),
     Def("story_links", "list", "dict[str, Any]", FALSE, JList(<<>>)),
     Def("custom_fields", "list", "dict[str, Any]", FALSE, JList(<<>>)),
     Def("stats", "dict", "dict[str, Any]", TRUE, JNull),
     Def("num_tasks_completed", "scalar", "int", TRUE, JNull),
     Def("lead_time", "scalar", "int", TRUE, JNull),
     Def("cycle_time", "scalar", "int", TRUE, JNull),
     Def("formatted_vcs_branch_name", "scalar", "str", TRUE, JNull),
     Def("mention_ids", "list", "str", FALSE, JList(<<>>)),
     Def("member_mention_ids", "list", "str", FALSE, JList(<<>>)),
     Def("group_mention_ids", "list", "str", FALSE, JList(<<>>))>>,
   from_json |-> <<
     Date("deadline"),
     Date("started_at"),
     Date("completed_at"),
     Date("started_at_override"),
     Date("completed_at_override"),
     Date("created_at"),
     Date("updated_at"),
     Date("moved_at")>>,
   construct |-> "kwargs", reads |-> <<>>]

\* models.py 1677-1709: class IterationSlim
IterationSlim ==
  [name |-> "IterationSlim",
   fields |-> <<
     Req("id", "scalar", "int", FALSE),
     Req("name", "scalar", "str", FALSE),
     Req("global_id", "scalar", "str", FALSE),
     Req("app_url", "scalar", "str", FALSE),
     Req("status", "scalar", "str", FALSE),
     Def("entity_type", "scalar", "str", FALSE, JStr("iteration")),
     Def("start_date", "datetime", "datetime", TRUE, JNull),
     Def("end_date", "datetime", "datetime", TRUE, JNull),
     Def("created_at", "datetime", "datetime", TRUE, JNull),
     Def("updated_at", "datetime", "datetime", TRUE, JNull),
     Def("label_ids", "list", "int", FALSE, JList(<<>>)),
     Def("follower_ids", "list", "str", FALSE, JList(<<>>)),
     Def("group_ids", "list", "str", FALSE, JList(<<>>)),
     Def("labels", "list", "dict[str, Any]", FALSE, JList(<<>>)),
     Def("associated_groups", "list", "dict[str, Any]", FALSE, JList(<<>>)),
     Def("stats", "dict", "dict[str, Any]", TRUE, JNull),
     Def("mention_ids", "list", "str", FALSE, JList(<<>>)),
     Def("member_mention_ids", "list", "str", FALSE, JList(<<>>)),
     Def("group_mention_ids", "list", "str", FALSE, JList(<<>>))>>,
   from_json |-> <<
     Date("start_date"),
     Date("end_date"),
     Date("created_at"),
     Date("updated_at")>>,
   construct |-> "kwargs", reads |-> <<>>]

\* models.py 1717-1753: class EpicSearchResult
EpicSearchResult ==
  [name |-> "EpicSearchResult",
   fields |-> <<
     Req("id", "scalar", "int", FALSE),
     Req("name", "scalar", "str", FALSE),
     Def("entity_type", "scalar", "str", FALSE, JStr("epic")),
     Def("description", "scalar", "str", TRUE, JNull),
     Def("app_url", "scalar", "str", TRUE, JNull),
     Def("created_at", "datetime", "datetime", TRUE, JNull),
     Def("updated_at", "datetime", "datetime", TRUE, JNull),
     Def("completed_at", "datetime", "datetime", TRUE, JNull),
     Def("started_at", "datetime", "datetime", TRUE, JNull),
     Def("deadline", "datetime", "datetime", TRUE, JNull),
     Def("state", "scalar", "str", TRUE, JNull),
     Def("epic_state_id", "scalar", "int", TRUE, JNull),
     Def("milestone_id", "scalar", "int", TRUE, JNull),
     Def("objective_ids", "list", "int", FALSE, JList(<<>>)),
     Def("project_ids", "list", "int", FALSE, JList(<<>>)),
     Def("follower_ids", "list", "str", FALSE, JList(<<>>)),
     Def("owner_ids", "list", "str", FALSE, JList(<<>>)),
     Def("label_ids", "list", "int", FALSE, JList(<<>>))>>,
   from_json |-> <<
     Date("created_at"),
     Date("updated_at"),
     Date("completed_at"),
     Date("started_at"),
     Date("deadline")>>,
   construct |-> "kwargs", reads |-> <<>>]

\* models.py 1756-1793: class StorySearchResult
StorySearchResult ==
  [name |-> "StorySearchResult",
   fields |-> <<
     Req("id", "scalar", "int", FALSE),
     Req("name", "scalar", "str", FALSE),
     Def("entity_type", "scalar", "str", FALSE, JStr("story")),
     Def("story_type", "scalar", "str", FALSE, JStr("feature")),
     Def("description", "scalar", "str", TRUE, JNull),
     Def("app_url", "scalar", "str", TRUE, JNull),
     Def("created_at", "datetime", "datetime", TRUE, JNull),
     Def("updated_at", "datetime", "datetime", TRUE, JNull),
     Def("completed_at", "datetime", "datetime", TRUE, JNull),
     Def("started_at", "datetime", "datetime", TRUE, JNull),
     Def("deadline", "datetime", "datetime", TRUE, JNull),
     Def("workflow_state_id", "scalar", "int", TRUE, JNull),
     Def("project_id", "scalar", "int", TRUE, JNull),
     Def("epic_id", "scalar", "int", TRUE, JNull),
     Def("iteration_id", "scalar", "int", TRUE, JNull),
     Def("estimate", "scalar", "int", TRUE, JNull),
     Def("follower_ids", "list", "str", FALSE, JList(<<>>)),
     Def("owner_ids", "list", "str", FALSE, JList(<<>>)),
     Def("label_ids", "list", "int", FALSE, JList(<<>>))>>,
   from_json |-> <<
     Date("created_at"),
     Date("updated_at"),
     Date("completed_at"),
     Date("started_at"),
     Date("deadline")>>,
   construct |-> "kwargs", reads |-> <<>>]

\* models.py 1796-1808: class StorySearchResults
StorySearchResults ==
  [name |-> "StorySearchResults",
   fields |-> <<
     Req("total", "scalar", "int", FALSE),
     Req("data", "record_list", "StorySearchResult", FALSE),
     Def("next", "scalar", "str", TRUE, JNull)>>,
   from_json |-> <<
     Each("data", "StorySearchResult")>>,
   construct |-> "kwargs", reads |-> <<>>]

\* models.py 1811-1823: class EpicSearchResults
EpicSearchResults ==
  [name |-> "EpicSearchResults",
   fields |-> <<
     Req("total", "scalar", "int", FALSE),
     Req("data", "record_list", "EpicSearchResult", FALSE),
     Def("next", "scalar", "str", TRUE, JNull)>>,
   from_json |-> <<
     Each("data", "EpicSearchResult")>>,
   construct |-> "kwargs", reads |-> <<>>]

\* models.py 1826-1838: class IterationSearchResults
IterationSearchResults ==
  [name |-> "IterationSearchResults",
   fields |-> <<
     Req("total", "scalar", "int", FALSE),
     Req("data", "record_list", "IterationSlim", FALSE),
     Def("next", "scalar", "str", TRUE, JNull)>>,
   from_json |-> <<
     Each("data", "IterationSlim")>>,
   construct |-> "kwargs", reads |-> <<>>]

\* models.py 1841-1853: class ObjectiveSearchResults
ObjectiveSearchResults ==
  [name |-> "ObjectiveSearchResults",
   fields |-> <<
     Req("total", "scalar", "int", FALSE),
     Req("data", "record_list", "Objective", FALSE),
     Def("next", "scalar", "str", TRUE, JNull)>>,
   from_json |-> <<
     Each("data", "Objective")>>,
   construct |-> "kwargs", reads |-> <<>>]

\* models.py 1856-1868: class DocumentSearchResults
DocumentSearchResults ==
  [name |-> "DocumentSearchResults",
   fields |-> <<
     Req("total", "scalar", "int", FALSE),
     Req("data", "record_list", "DocSlim", FALSE),
     Def("next", "scalar", "str", TRUE, JNull)>>,
   from_json |-> <<
     Each("data", "DocSlim")>>,
   construct |-> "kwargs", reads |-> <<>>]

\* models.py 1871-1890: class SearchResults
SearchResults ==
  [name |-> "SearchResults",
   fields |-> <<
     Def("epics", "record", "EpicSearchResults", TRUE, JNull),
     Def("stories", "record", "StorySearchResults", TRUE, JNull),
     Def("iterations", "record", "IterationSearchResults", TRUE, JNull),
     Def("milestones", "record", "ObjectiveSearchResults", TRUE, JNull)>>,
   from_json |-> <<
     One("epics", "EpicSearchResults", "truthy"),
     One("stories", "StorySearchResults", "truthy"),
     One("iterations", "IterationSearchResults", "truthy"),
     One("milestones", "ObjectiveSearchResults", "truthy")>>,
   construct |-> "kwargs", reads |-> <<>>]

\* models.py 1898-1967: class StoryHistory
StoryHistory ==
  [name |-> "StoryHistory",
   fields |-> <<
     Req("id", "scalar", "int", FALSE),
     Def("entity_type", "scalar", "str", FALSE, JStr("story-history")),
     Def("story_id", "scalar", "int", TRUE, JNull),
     Def("member_id", "scalar", "str", TRUE, JNull),
     Def("created_at", "datetime", "datetime", TRUE, JNull),
     Def("updated_at", "datetime", "datetime", TRUE, JNull),
     Def("changed_at", "datetime", "datetime", TRUE, JNull),
     Def("actions", "list", "dict[str, Any]", FALSE, JList(<<>>)),
     Def("external_id", "scalar", "str", TRUE, JNull),
     Def("version", "scalar", "str", TRUE, JNull),
     Def("subject_type", "scalar", "str", TRUE, JNull),
     Def("subject_id", "scalar", "int", TRUE, JNull),
     Def("changes", "dict", "dict[str, Any]", TRUE, JNull),
     Def("name", "scalar", "str", TRUE, JNull),
     Def("description", "scalar", "str", TRUE, JNull),
     Def("story_type", "scalar", "str", TRUE, JNull),
     Def("workflow_state_id", "scalar", "int", TRUE, JNull),
     Def("archived", "scalar", "bool", TRUE, JNull),
     Def("position", "scalar", "int", TRUE, JNull),
     Def("started", "scalar", "bool", TRUE, JNull),
     Def("completed", "scalar", "bool", TRUE, JNull),
     Def("started_at", "datetime", "datetime", TRUE, JNull),
     Def("completed_at", "datetime", "datetime", TRUE, JNull),
     Def("estimate", "scalar", "int", TRUE, JNull),
     Def("deadline", "datetime", "datetime", TRUE, JNull),
     Def("project_id", "scalar", "int", TRUE, JNull),
     Def("epic_id", "scalar", "int", TRUE, JNull),
     Def("iteration_id", "scalar", "int", TRUE, JNull),
     Def("label_ids", "list", "int", TRUE, JNull),
     Def("owner_ids", "list", "str", TRUE, JNull),
     Def("follower_ids", "list", "str", TRUE, JNull),
     Def("group_id", "scalar", "str", TRUE, JNull),
     Def("group_ids", "list", "str", TRUE, JNull),
     Def("blocked", "scalar", "bool", TRUE, JNull),
     Def("blocker", "scalar", "bool", TRUE, JNull),
     Def("branch_ids", "list", "int", TRUE, JNull),
     Def("commit_ids", "list", "int", TRUE, JNull),
     Def("pull_request_ids", "list", "int", TRUE, JNull),
     Def("file_ids", "list", "int", TRUE, JNull),
     Def("linked_file_ids", "list", "int", TRUE, JNull),
     Def("app_url", "scalar", "str", TRUE, JNull),
     Def("mention_ids", "list", "str", TRUE, JNull),
     Def("member_mention_ids", "list", "str", TRUE, JNull),
     Def("group_mention_ids", "list", "str", TRUE, JNull),
     Def("primary_id", "scalar", "int", TRUE, JNull),
     Def("references_id", "scalar", "int", TRUE, JNull),
     Def("references", "list", "dict[str, Any]", TRUE, JNull),
     Def("revert", "scalar", "bool", TRUE, JNull),
     Def("actor_name", "scalar", "str", TRUE, JNull),
     Def("actor_id", "scalar", "str", TRUE, JNull)>>,
   from_json |-> <<
     Date("created_at"),
     Date("updated_at"),
     Date("changed_at"),
     Date("started_at"),
     Date("completed_at"),
     Date("deadline")>>,
   construct |-> "kwargs", reads |-> <<>>]

\* models.py 1975-1979: class CreateStoriesInput
CreateStoriesInput ==
  [name |-> "CreateStoriesInput",
   fields |-> <<
     Req("stories", "record_list", "CreateStoryParams", FALSE)>>,
   from_json |-> <<>>,
   construct |-> "none", reads |-> <<>>]

\* models.py 1982-1998: class UpdateStoriesInput
UpdateStoriesInput ==
  [name |-> "UpdateStoriesInput",
   fields |-> <<
     Req("story_ids", "list", "int", FALSE),
     Def("workflow_state_id", "scalar", "int", TRUE, JNull),
     Def("project_id", "scalar", "int", TRUE, JNull),
     Def("epic_id", "scalar", "int", TRUE, JNull),
     Def("iteration_id", "scalar", "int", TRUE, JNull),
     Def("group_id", "scalar", "str", TRUE, JNull),
     Def("owner_ids", "list", "str", TRUE, JNull),
     Def("follower_ids", "list", "str", TRUE, JNull),
     Def("label_ids", "list", "int", TRUE, JNull),
     Def("archived", "scalar", "bool", TRUE, JNull),
     Def("story_type", "scalar", "str", TRUE, JNull),
     Def("estimate", "scalar", "int", TRUE, JNull),
     Def("deadline", "datetime", "datetime", TRUE, JNull)>>,
   from_json |-> <<>>,
   construct |-> "none", reads |-> <<>>]

\* models.py 2001-2005: class DeleteStoriesInput
DeleteStoriesInput ==
  [name |-> "DeleteStoriesInput",
   fields |-> <<
     Req("story_ids", "list", "int", FALSE)>>,
   from_json |-> <<>>,
   construct |-> "none", reads |-> <<>>]

\* models.py 2013-2032: class CreateStoryFromTemplateInput
CreateStoryFromTemplateInput ==
  [name |-> "CreateStoryFromTemplateInput",
   fields |-> <<
     Req("story_template_id", "scalar", "str", FALSE),
     Def("name", "scalar", "str", TRUE, JNull),
     Def("description", "scalar", "str", TRUE, JNull),
     Def("workflow_state_id", "scalar", "int", TRUE, JNull),
     Def("project_id", "scalar", "int", TRUE, JNull),
     Def("epic_id", "scalar", "int", TRUE, JNull),
     Def("iteration_id", "scalar", "int", TRUE, JNull),
     Def("group_id", "scalar", "str", TRUE, JNull),
     Def("owner_ids", "list", "str", TRUE, JNull),
     Def("follower_ids", "list", "str", TRUE, JNull),
     Def("label_ids", "list", "int", TRUE, JNull),
     Def("estimate", "scalar", "int", TRUE, JNull),
     Def("deadline", "datetime", "datetime", TRUE, JNull),
     Def("external_id", "scalar", "str", TRUE, JNull),
     Def("archived", "scalar", "bool", TRUE, JNull),
     Def("story_type", "scalar", "str", TRUE, JNull)>>,
   from_json |-> <<>>,
   construct |-> "none", reads |-> <<>>]

\* models.py 2040-2044: class CreateReactionInput
CreateReactionInput ==
  [name |-> "CreateReactionInput",
   fields |-> <<
     Req("emoji", "scalar", "str", FALSE)>>,
   from_json |-> <<>>,
   construct |-> "none", reads |-> <<>>]

\* models.py 2047-2051: class DeleteReactionInput
DeleteReactionInput ==
  [name |-> "DeleteReactionInput",
   fields |-> <<
     Req("emoji", "scalar", "str", FALSE)>>,
   from_json |-> <<>>,
   construct |-> "none", reads |-> <<>>]

\* models.py 2059-2077: class GenericIntegration
GenericIntegration ==
  [name |-> "GenericIntegration",
   fields |-> <<
     Req("id", "scalar", "int", FALSE),
     Req("name", "scalar", "str", FALSE),
     Req("url", "scalar", "str", FALSE),
     Def("entity_type", "scalar", "str", FALSE, JStr("integration")),
     Def("created_at", "datetime", "datetime", TRUE, JNull),
     Def("updated_at", "datetime", "datetime", TRUE, JNull)>>,
   from_json |-> <<
     Date("created_at"),
     Date("updated_at")>>,
   construct |-> "kwargs", reads |-> <<>>]

\* models.py 2080-2085: class CreateGenericIntegrationInput
CreateGenericIntegrationInput ==
  [name |-> "CreateGenericIntegrationInput",
   fields |-> <<
     Req("name", "scalar", "str", FALSE),
     Req("url", "scalar", "str", FALSE)>>,
   from_json |-> <<>>,
   construct |-> "none", reads |-> <<>>]

\* models.py 2093-2100: class QueryStoriesInput
QueryStoriesInput ==
  [name |-> "QueryStoriesInput",
   fields |-> <<
     Req("query", "scalar", "str", FALSE),
     Def("detail", "scalar", "str", FALSE, JStr("slim")),
     Def("page_size", "scalar", "int", FALSE, JInt(25)),
     Def("next", "scalar", "str", TRUE, JNull)>>,
   from_json |-> <<>>,
   construct |-> "none", reads |-> <<>>]

\* models.py 2108-2134: class UploadedFile
UploadedFile ==
  [name |-> "UploadedFile",
   fields |-> <<
     Req("id", "scalar", "int", FALSE),
     Req("name", "scalar", "str", FALSE),
     Req("content_type", "scalar", "str", FALSE),
     Req("size", "scalar", "int", FALSE),
     Req("filename", "scalar", "str", FALSE),
     Req("url", "scalar", "str", FALSE),
     Def("entity_type", "scalar", "str", FALSE, JStr("uploaded-file")),
     Def("created_at", "datetime", "datetime", TRUE, JNull),
     Def("updated_at", "datetime", "datetime", TRUE, JNull),
     Def("uploader_id", "scalar", "str", TRUE, JNull),
     Def("description", "scalar", "str", TRUE, JNull),
     Def("external_id", "scalar", "str", TRUE, JNull),
     Def("story_ids", "list", "int", FALSE, JList(<<>>)),
     Def("thumbnail_url", "scalar", "str", TRUE, JNull)>>,
   from_json |-> <<
     Date("created_at"),
     Date("updated_at")>>,
   construct |-> "kwargs", reads |-> <<>>]

\* models.py 2137-2143: class UpdateFileInput
UpdateFileInput ==
  [name |-> "UpdateFileInput",
   fields |-> <<
     Def("name", "scalar", "str", TRUE, JNull),
     Def("description", "scalar", "str", TRUE, JNull),
     Def("external_id", "scalar", "str", TRUE, JNull)>>,
   from_json |-> <<>>,
   construct |-> "none", reads |-> <<>>]

\* models.py 2151-2165: class LabelSlim
LabelSlim ==
  [name |-> "LabelSlim",
   fields |-> <<
     Req("id", "scalar", "int", FALSE),
     Req("name", "scalar", "str", FALSE),
     Def("entity_type", "scalar", "str", FALSE, JStr("label")),
     Def("color", "scalar", "str", TRUE, JNull),
     Def("description", "scalar", "str", TRUE, JNull),
     Def("external_id", "scalar", "str", TRUE, JNull),
     Def("archived", "scalar", "bool", FALSE, JBool(FALSE))>>,
   from_json |-> <<>>,
   construct |-> "kwargs", reads |-> <<>>]
----------------------------------------------------------------------------
(* The namespace of useshortcut.models: class name -> class table.         *)

Registry ==
    [
     CreateStoryParams |-> CreateStoryParams, UpdateStoryInput |-> UpdateStoryInput,
     Story |-> Story, Task |-> Task,
     CreateTaskInput |-> CreateTaskInput, UpdateTaskInput |-> UpdateTaskInput,
     CreateEpicInput |-> CreateEpicInput, UpdateEpicInput |-> UpdateEpicInput,
     Epic |-> Epic, EpicWorkflow |-> EpicWorkflow,
     CreateIterationInput |-> CreateIterationInput, UpdateIterationInput |-> UpdateIterationInput,
     Iteration |-> Iteration, StoryLinkInput |-> StoryLinkInput,
     StoryLink |-> StoryLink, CreateGroupInput |-> CreateGroupInput,
     UpdateGroupInput |-> UpdateGroupInput, Group |-> Group,
     KeyResultValue |-> KeyResultValue, KeyResultInput |-> KeyResultInput,
     KeyResult |-> KeyResult, CreateLabelInput |-> CreateLabelInput,
     UpdateLabelInput |-> UpdateLabelInput, Label |-> Label,
     CreateLinkedFilesInput |-> CreateLinkedFilesInput, UpdatedLinkedFilesInput |-> UpdatedLinkedFilesInput,
     LinkedFiles |-> LinkedFiles, CreateFileInput |-> CreateFileInput,
     File |-> File, Profile |-> Profile,
     Member |-> Member, CreateObjectiveInput |-> CreateObjectiveInput,
     UpdateObjectiveInput |-> UpdateObjectiveInput, Objective |-> Objective,
     Repository |-> Repository, WorkflowState |-> WorkflowState,
     Workflow |-> Workflow, CreateCategoryInput |-> CreateCategoryInput,
     UpdateCategoryInput |-> UpdateCategoryInput, Category |-> Category,
     CreateProjectInput |-> CreateProjectInput, UpdateProjectInput |-> UpdateProjectInput,
     Project |-> Project, SearchInputs |-> SearchInputs,
     SearchStoryResult |-> SearchStoryResult, StoryReaction |-> StoryReaction,
     StoryComment |-> StoryComment, CreateStoryCommentInput |-> CreateStoryCommentInput,
     UpdateStoryCommentInput |-> UpdateStoryCommentInput, ThreadedComment |-> ThreadedComment,
     MilestoneStats |-> MilestoneStats, Milestone |-> Milestone,
     CreateCategoryParams |-> CreateCategoryParams, CreateMilestoneInput |-> CreateMilestoneInput,
     UpdateMilestoneInput |-> UpdateMilestoneInput, CustomFieldEnumValue |-> CustomFieldEnumValue,
     CustomField |-> CustomField, UpdateCustomFieldEnumValue |-> UpdateCustomFieldEnumValue,
     UpdateCustomFieldInput |-> UpdateCustomFieldInput, DocSlim |-> DocSlim,
     Doc |-> Doc, CreateDocInput |-> CreateDocInput,
     UpdateDocInput |-> UpdateDocInput, StoryContents |-> StoryContents,
     CreateStoryContents |-> CreateStoryContents, UpdateStoryContents |-> UpdateStoryContents,
     EntityTemplate |-> EntityTemplate, CreateEntityTemplateInput |-> CreateEntityTemplateInput,
     UpdateEntityTemplateInput |-> UpdateEntityTemplateInput, Health |-> Health,
     CreateHealthInput |-> CreateHealthInput, UpdateHealthInput |-> UpdateHealthInput,
     EpicSlim |-> EpicSlim, StorySlim |-> StorySlim,
     IterationSlim |-> IterationSlim, EpicSearchResult |-> EpicSearchResult,
     StorySearchResult |-> StorySearchResult, StorySearchResults |-> StorySearchResults,
     EpicSearchResults |-> EpicSearchResults, IterationSearchResults |-> IterationSearchResults,
     ObjectiveSearchResults |-> ObjectiveSearchResults, DocumentSearchResults |-> DocumentSearchResults,
     SearchResults |-> SearchResults, StoryHistory |-> StoryHistory,
     CreateStoriesInput |-> CreateStoriesInput, UpdateStoriesInput |-> UpdateStoriesInput,
     DeleteStoriesInput |-> DeleteStoriesInput, CreateStoryFromTemplateInput |-> CreateStoryFromTemplateInput,
     CreateReactionInput |-> CreateReactionInput, DeleteReactionInput |-> DeleteReactionInput,
     GenericIntegration |-> GenericIntegration, CreateGenericIntegrationInput |-> CreateGenericIntegrationInput,
     QueryStoriesInput |-> QueryStoriesInput, UploadedFile |-> UploadedFile,
     UpdateFileInput |-> UpdateFileInput, LabelSlim |-> LabelSlim]

ClassOf(c) == models[c]

\* The classes that define from_json (the read side) and the others (the
\* request records of the write side).
ReadClasses == {c \in DOMAIN models : models[c].construct # "none"}
InputClasses == {c \in DOMAIN models : models[c].construct = "none"}

Fields(c) == ClassOf(c).fields
FieldNames(c) == {Fields(c)[i].name : i \in 1..Len(Fields(c))}
FieldOf(c, n) == Fields(c)[CHOOSE i \in 1..Len(Fields(c)) : Fields(c)[i].name = n]
\* The constructor arguments without default.
Required(c) == {Fields(c)[i].name : i \in {j \in 1..Len(Fields(c)) : ~Fields(c)[j].has_default}}
Optionals(c) == FieldNames(c) \ Required(c)
\* The fields annotated datetime or Optional[datetime].
TimestampFields(c) == {Fields(c)[i].name : i \in {j \in 1..Len(Fields(c)) : Fields(c)[j].kind = "datetime"}}
\* The keys from_json converts with datetime.fromisoformat.
ConvertedFields(c) ==
    {ClassOf(c).from_json[i].key :
        i \in {j \in 1..Len(ClassOf(c).from_json) : ClassOf(c).from_json[j].op = "date"}}

----------------------------------------------------------------------------
(* Exceptions.  names is what the message identifies: the missing          *)
(* arguments of "missing N required positional arguments: ...", the        *)
(* keyword of "got an unexpected keyword argument ...", the key of a       *)
(* KeyError.                                                               *)

NoError == [type |-> "none", what |-> "none", names |-> {}]
TypeErrorUnexpected(ks) == [type |-> "TypeError", what |-> "unexpected keyword argument", names |-> ks]
TypeErrorMissing(ks) == [type |-> "TypeError", what |-> "missing required argument", names |-> ks]
TypeErrorNotMapping == [type |-> "TypeError", what |-> "not a mapping", names |-> {}]
TypeErrorNotIterable == [type |-> "TypeError", what |-> "not iterable", names |-> {}]
KeyError(k) == [type |-> "KeyError", what |-> "key", names |-> {k}]
ValueErrorIsoFormat == [type |-> "ValueError", what |-> "Invalid isoformat string", names |-> {}]

Returned(x, d) == [ok |-> TRUE, value |-> x, error |-> NoError, data |-> d]
Raised(e, d) == [ok |-> FALSE, value |-> JNull, error |-> e, data |-> d]

----------------------------------------------------------------------------
(* The dataclass constructor and the return statement of from_json.        *)

\* The element of a singleton.  An operator that uses its argument more
\* than once binds it through The({... : r \in {argument}}), so that the
\* argument is evaluated once.
The(S) == CHOOSE x \in S : TRUE

\* A constructor that binds an absent argument to None whatever its default.
DataclassInitNoDefaults(c, kw) ==
    IF DOMAIN kw \ FieldNames(c) # {}
    THEN [ok |-> FALSE, value |-> JNull, error |-> TypeErrorUnexpected(DOMAIN kw \ FieldNames(c))]
    ELSE IF Required(c) \ DOMAIN kw # {}
    THEN [ok |-> FALSE, value |-> JNull, error |-> TypeErrorMissing(Required(c) \ DOMAIN kw)]
    ELSE [ok |-> TRUE,
          value |-> JObj(c, [n \in FieldNames(c) |-> IF n \in DOMAIN kw THEN kw[n] ELSE JNull]),
          error |-> NoError]

\* A constructor whose arguments are all optional: a missing required
\* argument is bound to None instead of raising.
DataclassInitAllOptional(c, kw) ==
    IF DOMAIN kw \ FieldNames(c) # {}
    THEN [ok |-> FALSE, value |-> JNull, error |-> TypeErrorUnexpected(DOMAIN kw \ FieldNames(c))]
    ELSE [ok |-> TRUE,
          value |-> JObj(c, [n \in FieldNames(c) |->
                               IF n \in DOMAIN kw THEN kw[n] ELSE FieldOf(c, n).default]),
          error |-> NoError]

\* The declared names, the names without default and the default of n in
\* the field rows fs.
NamesIn(fs) == {fs[i].name : i \in 1..Len(fs)}
RequiredIn(fs) == {fs[i].name : i \in {j \in 1..Len(fs) : ~fs[j].has_default}}
DefaultIn(fs, n) == fs[CHOOSE i \in 1..Len(fs) : fs[i].name = n].default

\* cls( **kw): the generated __init__ (fs are the fields of the class).  An
\* unexpected keyword is reported before a missing argument; absent
\* arguments take their defaults.
DataclassInit(c, kw) ==
    The({IF DOMAIN kw \ NamesIn(fs) # {}
         THEN [ok |-> FALSE, value |-> JNull,
               error |-> TypeErrorUnexpected(DOMAIN kw \ NamesIn(fs))]
         ELSE IF RequiredIn(fs) \ DOMAIN kw # {}
         THEN [ok |-> FALSE, value |-> JNull,
               error |-> TypeErrorMissing(RequiredIn(fs) \ DOMAIN kw)]
         ELSE [ok |-> TRUE,
               value |-> JObj(c, [n \in NamesIn(fs) |->
                                    IF n \in DOMAIN kw THEN kw[n] ELSE DefaultIn(fs, n)]),
               error |-> NoError] : fs \in {Fields(c)}})

\* {k: v for k, v in data.items() if k in cls.__annotations__}
OnlyAnnotated(c, d) == [k \in DOMAIN d \cap FieldNames(c) |-> d[k]]

\* The keyword arguments an explicit return builds: data[k] raises KeyError
\* on the first absent key, data.get(k) gives None.
RECURSIVE ExplicitArgs(_, _, _, _)
ExplicitArgs(reads, i, d, kw) ==
    IF i > Len(reads) THEN [ok |-> TRUE, kw |-> kw, error |-> NoError]
    ELSE IF reads[i][1] \in DOMAIN d
    THEN ExplicitArgs(reads, i + 1, d, SetKey(kw, reads[i][1], d[reads[i][1]]))
    ELSE IF reads[i][2] = "get"
    THEN ExplicitArgs(reads, i + 1, d, SetKey(kw, reads[i][1], JNull))
    ELSE [ok |-> FALSE, kw |-> kw, error |-> KeyError(reads[i][1])]

\* The keyword arguments the return statement passes to cls(...).
ConstructArgs(c, d) ==
    CASE ClassOf(c).construct = "annotated" ->
            [ok |-> TRUE, kw |-> OnlyAnnotated(c, d), error |-> NoError]
      [] ClassOf(c).construct = "explicit" ->
            ExplicitArgs(ClassOf(c).reads, 1, d, EmptyDict)
      [] OTHER -> [ok |-> TRUE, kw |-> d, error |-> NoError]

\* The value of the return statement once cls(...) has run.
Constructed(init, d) ==
    The({IF r.ok THEN Returned(r.value, JDict(d)) ELSE Raised(r.error, JDict(d)) : r \in {init}})

\* cls(...) on the arguments a, or the KeyError of building them.
ConstructFrom(c, d, args) ==
    The({IF a.ok THEN Constructed(DataclassInit(c, a.kw), d) ELSE Raised(a.error, JDict(d)) :
            a \in {args}})

\* return cls(...)
Construct(c, d) == ConstructFrom(c, d, ConstructArgs(c, d))

----------------------------------------------------------------------------
(* from_json.  The result is the returned instance or the raised error,    *)
(* and data: the caller's dict after the call, since every statement of    *)
(* the form data[k] = ... assigns into the caller's dict (and a nested     *)
(* from_json into the nested dict).                                        *)

RECURSIVE FromJson(_, _)
RECURSIVE Statements(_, _, _)
RECURSIVE EachFromJson(_, _, _, _)

Done(d) == [ok |-> TRUE, error |-> NoError, data |-> d]
Failed(e, d) == [ok |-> FALSE, error |-> e, data |-> d]

\* data[k] = datetime.fromisoformat(...): p is the parse.
AssignDate(s, d, parse) ==
    The({IF p.ok THEN Done(SetKey(d, s.key, JDatetime(p.dt))) ELSE Failed(ValueErrorIsoFormat, d) :
            p \in {parse}})

\* The nested call made and its result dropped: data[k] stays the raw map.
AssignOneDropped(s, d, call) == The({Done(d) : r \in {call}})

\* data[k] = C.from_json(data[k]): r is the nested call.
AssignOne(s, d, call) ==
    The({IF r.ok THEN Done(SetKey(d, s.key, r.value))
         ELSE Failed(r.error, SetKey(d, s.key, r.data)) : r \in {call}})

\* The comprehension's list stored back to front.
AssignEachReversed(s, d, call) ==
    The({IF r.ok
         THEN Done(SetKey(d, s.key,
                          JList([i \in 1..Len(r.value) |-> r.value[Len(r.value) + 1 - i]])))
         ELSE Failed(r.error, SetKey(d, s.key, JList(r.data))) : r \in {call}})

\* data[k] = [C.from_json(x) for x in data[k]]: r is the comprehension.
AssignEach(s, d, call) ==
    The({IF r.ok THEN Done(SetKey(d, s.key, JList(r.value)))
         ELSE Failed(r.error, SetKey(d, s.key, JList(r.data))) : r \in {call}})

\* One statement of a from_json body on the dict d.
Statement(s, d) ==
    IF s.key \notin DOMAIN d THEN Done(d)
    ELSE CASE s.op = "date" ->
                IF d[s.key].t # "str" THEN Done(d)
                ELSE AssignDate(s, d, ParseDate(d[s.key]))
           [] s.op = "one" ->
                IF s.guard = "truthy" /\ ~Truthy(d[s.key]) THEN Done(d)
                ELSE AssignOne(s, d, FromJson(s.cls, d[s.key]))
           [] OTHER ->
                IF d[s.key].t # "list" THEN Failed(TypeErrorNotIterable, d)
                ELSE AssignEach(s, d, EachFromJson(s.cls, d[s.key].v, 1, <<>>))

\* The statements after ss[i], unless ss[i] raised (r is its result).
ThenStatements(ss, i, step) ==
    The({IF r.ok THEN Statements(ss, i + 1, r.data) ELSE r : r \in {step}})

\* The statements ss[i..] of a from_json body on the dict d.
Statements(ss, i, d) ==
    IF i > Len(ss) THEN Done(d) ELSE ThenStatements(ss, i, Statement(ss[i], d))

\* The elements after q[i], unless q[i] raised (r is its decoding).
ThenEach(c, q, i, out, call) ==
    The({IF r.ok THEN EachFromJson(c, [q EXCEPT ![i] = r.data], i + 1, Append(out, r.value))
         ELSE [ok |-> FALSE, value |-> out, error |-> r.error,
               data |-> [q EXCEPT ![i] = r.data]] : r \in {call}})

\* [C.from_json(x) for x in q]: q after the elements up to i were decoded
\* (out holds the instances so far); stops at the first element that raises.
EachFromJson(c, q, i, out) ==
    IF i > Len(q) THEN [ok |-> TRUE, value |-> out, error |-> NoError, data |-> q]
    ELSE ThenEach(c, q, i, out, FromJson(c, q[i]))

\* The return statement, unless a statement raised (r is the body's result).
ThenConstruct(c, body) ==
    The({IF r.ok THEN Construct(c, r.data) ELSE Raised(r.error, JDict(r.data)) : r \in {body}})

\* C.from_json(x).  A value that is no dict fails with TypeError (at the
\* first `k in data` of the body, or at cls( **data)).
FromJson(c, x) ==
    IF x.t # "dict" THEN Raised(TypeErrorNotMapping, x)
    ELSE ThenConstruct(c, Statements(ClassOf(c).from_json, 1, x.v))
----------------------------------------------------------------------------
(* The raw documents a server can answer with (the inputs of from_json).   *)

ZTimestamp == JTokens(<<"2024-01-15", "T", "10:30:00", "Z">>)
OffsetTimestamp == JTokens(<<"2024-01-15", "T", "10:30:00", "+00:00">>)
OtherOffsetTimestamp == JTokens(<<"2024-06-20", "T", "18:45:30", "+02:00">>)
NaiveTimestamp == JTokens(<<"2024-01-15", "T", "10:30:00">>)
OtherZTimestamp == JTokens(<<"2024-06-20", "T", "18:45:30", "Z">>)
TimestampStrings ==
    {ZTimestamp, OtherZTimestamp, OffsetTimestamp, OtherOffsetTimestamp, NaiveTimestamp}

\* A string that is no ISO-8601 timestamp.
MalformedTimestamp == JTokens(<<"not-a-date">>)

\* The same string with every Z written as the explicit offset +00:00.
WithExplicitOffset(x) ==
    IF x.t = "str" THEN JTokens([i \in 1..Len(x.v) |-> IF x.v[i] = "Z" THEN "+00:00" ELSE x.v[i]])
    ELSE x
EndsWithZ(x) == x.t = "str" /\ Len(x.v) > 0 /\ x.v[Len(x.v)] = "Z"

RECURSIVE MinimalDoc(_)
\* A well-formed wire value for a field, by its annotation.
WireValue(f) ==
    CASE f.kind = "scalar" /\ f.of = "int" -> JInt(1001)
      [] f.kind = "scalar" /\ f.of = "bool" -> JBool(TRUE)
      [] f.kind = "scalar" -> JStr(f.name)
      [] f.kind = "datetime" -> ZTimestamp
      [] f.kind = "list" -> JList(<<JInt(7)>>)
      [] f.kind = "dict" -> JDict([k \in {"key"} |-> JInt(7)])
      [] f.kind = "record" -> JDict(MinimalDoc(f.of))
      [] f.kind = "record_list" -> JList(<<JDict(MinimalDoc(f.of))>>)
      [] OTHER -> JInt(7)

\* The document with only the required fields of c.
MinimalDoc(c) == [n \in Required(c) |-> WireValue(FieldOf(c, n))]

\* The document with every declared field of c.
FullDoc(c) == [n \in FieldNames(c) |-> WireValue(FieldOf(c, n))]

\* Keys no class declares (Member documents carry group_ids).
ExtraKeys == {"group_ids", "zz_added_by_server"}

\* The scenario document {"id": 1001, "name": "Test Story", "workflow_state_id": 500000}.
TestStoryDoc ==
    [n \in {"id", "name", "workflow_state_id"} |->
        CASE n = "id" -> JInt(1001)
          [] n = "name" -> JStr("Test Story")
          [] OTHER -> JInt(500000)]

\* The scenario document of get_current_member: a Member with an embedded
\* profile and the undeclared key group_ids.
TestProfileDoc ==
    [n \in {"id", "mention_name", "name", "email_address", "is_owner", "deactivated",
            "two_factor_auth_activated"} |->
        CASE n = "id" -> JStr("12345678")
          [] n = "mention_name" -> JStr("testuser")
          [] n = "name" -> JStr("Test User")
          [] n = "email_address" -> JStr("test@example.com")
          [] n = "two_factor_auth_activated" -> JBool(TRUE)
          [] OTHER -> JBool(FALSE)]
TestMemberDoc ==
    [n \in {"id", "role", "disabled", "state", "group_ids", "created_at", "updated_at",
            "profile"} |->
        CASE n = "id" -> JStr("12345678")
          [] n = "role" -> JStr("member")
          [] n = "disabled" -> JBool(FALSE)
          [] n = "state" -> JStr("full")
          [] n = "group_ids" -> JList(<<JStr("87654321")>>)
          [] n = "profile" -> JDict(TestProfileDoc)
          [] OTHER -> ZTimestamp]

MaxDepth == 2       \* the deepest nesting of comments in a ThreadedComment document
MaxChildren == 2    \* the most children of a comment

\* A comment without replies: the key comments omitted, or an empty list.
LeafForms == {"omitted", "empty"}
CommentLeaf(id, form) ==
    IF form = "omitted" THEN SetKey(MinimalDoc("ThreadedComment"), "id", JInt(id))
    ELSE SetKey(SetKey(MinimalDoc("ThreadedComment"), "id", JInt(id)), "comments", JList(<<>>))

\* A ThreadedComment document nested to depth d: every comment above the
\* leaves has w replies, the first of which is nested further; the i-th
\* reply of comment id is comment 10 * id + i.
RECURSIVE CommentTree(_, _, _, _)
CommentTree(d, w, id, form) ==
    IF d = 0 THEN CommentLeaf(id, form)
    ELSE SetKey(CommentLeaf(id, form), "comments",
                JList([i \in 1..w |->
                          JDict(IF i = 1 THEN CommentTree(d - 1, w, 10 * id + i, form)
                                ELSE CommentLeaf(10 * id + i, form))]))

CommentTrees ==
    {CommentTree(d, w, 1, form) : d \in 0..MaxDepth, w \in 1..MaxChildren, form \in LeafForms}

\* The record fields of c whose class declares timestamps.
TimestampedRecords(c) ==
    {n \in FieldNames(c) :
        /\ FieldOf(c, n).kind \in {"record", "record_list"}
        /\ TimestampFields(FieldOf(c, n).of) # {}}

\* A document of c whose nested document under n carries ts in a timestamp field.
NestedTimestampDoc(c, n, ts) ==
    SetKey(MinimalDoc(c), n,
           IF FieldOf(c, n).kind = "record"
           THEN JDict(SetKey(MinimalDoc(FieldOf(c, n).of),
                             CHOOSE k \in TimestampFields(FieldOf(c, n).of) : TRUE, ts))
           ELSE JList(<<JDict(SetKey(MinimalDoc(FieldOf(c, n).of),
                                     CHOOSE k \in TimestampFields(FieldOf(c, n).of) : TRUE, ts))>>))

Documents(c) ==
    {MinimalDoc(c), FullDoc(c)}
    \cup {SetKey(MinimalDoc(c), n, MalformedTimestamp) :
            n \in TimestampFields(c) \cup ConvertedFields(c)}
    \cup {NestedTimestampDoc(c, n, ts) :
            n \in TimestampedRecords(c), ts \in {MalformedTimestamp, ZTimestamp}}
    \cup {SetKey(FullDoc(c), k, JInt(7)) : k \in ExtraKeys}
    \cup {SetKey(MinimalDoc(c), k, JInt(7)) : k \in ExtraKeys}
    \cup {DelKey(MinimalDoc(c), n) : n \in Required(c)}
    \cup {DelKey(FullDoc(c), n) : n \in Required(c)}
    \cup {SetKey(MinimalDoc(c), n, s) :
            n \in TimestampFields(c) \cup ConvertedFields(c), s \in TimestampStrings}
    \cup {SetKey(MinimalDoc(c), n, JNull) : n \in Optionals(c)}
    \cup (IF c = "Story" THEN {TestStoryDoc} ELSE {})
    \cup (IF c = "ThreadedComment" THEN CommentTrees ELSE {})
    \cup (IF c = "Member"
          THEN {TestMemberDoc, DelKey(TestMemberDoc, "group_ids"),
                SetKey(MinimalDoc(c), "profile", JDict(FullDoc("Profile")))}
          ELSE {})

----------------------------------------------------------------------------
(* SpecDecode: one call C.from_json(data).                                 *)

Pending == [status |-> "none", value |-> JNull, error |-> NoError]

InitDecode ==
    /\ models = Registry
    /\ cls \in ReadClasses
    /\ raw \in {JDict(d) : d \in Documents(cls)}
    /\ data = raw
    /\ outcome = Pending /\ second = Pending
    /\ pages = <<>> /\ gen = <<>> /\ yielded = <<>> /\ requests = <<>>
    /\ method = "none" /\ record = JNull /\ sent = Pending /\ http = <<>>
    /\ heap = <<>> /\ calls = <<>>

\* What the caller observes of a call whose result is r.
Outcome(r) ==
    [status |-> IF r.ok THEN "returned" ELSE "raised",
     value |-> IF r.ok THEN r.value ELSE JNull, error |-> r.error]

\* The call returns or raises (r), the dict passed to it is left as r.data.
Finish(call) ==
    \E r \in {call} :
        /\ outcome' = Outcome(r)
        /\ data' = r.data

\* entity = models.<cls>.from_json(data)
CallFromJson ==
    /\ outcome.status = "none"
    /\ Finish(FromJson(cls, data))
    /\ UNCHANGED <<models, cls, raw, second>>
    /\ UNCHANGED pagVars
    /\ UNCHANGED encVars
    /\ UNCHANGED conVars

\* again = models.<cls>.from_json(data): the caller decodes the dict it
\* holds a second time.
CallFromJsonAgain ==
    /\ outcome.status # "none"
    /\ second.status = "none"
    /\ \E r \in {FromJson(cls, data)} :
          /\ second' = Outcome(r)
          /\ data' = r.data
    /\ UNCHANGED <<models, cls, raw, outcome>>
    /\ UNCHANGED pagVars
    /\ UNCHANGED encVars
    /\ UNCHANGED conVars

NextDecode ==
    \/ CallFromJson
    \/ CallFromJsonAgain

SpecDecode == InitDecode /\ [][NextDecode]_vars


----------------------------------------------------------------------------
(* Properties of from_json (SpecDecode).                                   *)

Called == outcome.status # "none" /\ method = "none"
ReturnedEntity == Called /\ outcome.status = "returned"
RaisedError == Called /\ outcome.status = "raised"
Attrs == outcome.value.v.attrs
MissingRequired == Required(cls) \ DOMAIN raw.v
UnknownKeys == DOMAIN raw.v \ FieldNames(cls)

\* A document whose present declared fields carry well-formed values:
\* ISO-8601 strings for timestamps, well-formed complete documents for
\* nested records.
RECURSIVE PresentWellFormed(_, _)
WellFormedValue(f, x) ==
    CASE f.kind = "datetime" -> x \in TimestampStrings
      [] f.kind = "record" ->
            /\ x.t = "dict"
            /\ Required(f.of) \subseteq DOMAIN x.v
            /\ PresentWellFormed(f.of, x.v)
      [] f.kind = "record_list" ->
            /\ x.t = "list"
            /\ \A i \in 1..Len(x.v) :
                  /\ x.v[i].t = "dict"
                  /\ Required(f.of) \subseteq DOMAIN x.v[i].v
                  /\ PresentWellFormed(f.of, x.v[i].v)
      [] OTHER -> TRUE
PresentWellFormed(c, d) ==
    \A n \in DOMAIN d \cap FieldNames(c) : WellFormedValue(FieldOf(c, n), d[n])

\* C3: for every read entity type, a document that carries every declared
\* field with a well-formed value plus keys the type does not declare decodes
\* to an entity, and the undeclared keys do not appear on it.
C3_UnknownFieldsIgnored ==
    (/\ Called
     /\ UnknownKeys # {}
     /\ FieldNames(cls) \subseteq DOMAIN raw.v
     /\ PresentWellFormed(cls, raw.v))
    => /\ ReturnedEntity
       /\ DOMAIN Attrs \cap UnknownKeys = {}

\* C7: a well-formed document that carries the required fields and only some
\* (or none) of the optional ones decodes to an entity; every absent optional
\* field holds its declared default and every present plain field the value
\* of the document.  The Story document {id: 1001, name: "Test Story",
\* workflow_state_id: 500000} decodes to a Story with those three values and
\* story_type "feature".
C7_MissingOptionalsTakeDefaults ==
    (/\ Called
     /\ UnknownKeys = {}
     /\ MissingRequired = {}
     /\ PresentWellFormed(cls, raw.v))
    => /\ ReturnedEntity
       /\ \A n \in Optionals(cls) \ DOMAIN raw.v : Attrs[n] = FieldOf(cls, n).default
       /\ \A n \in DOMAIN raw.v :
             FieldOf(cls, n).kind \in {"scalar", "list", "dict", "any"} => Attrs[n] = raw.v[n]
       /\ (cls = "Story" /\ raw.v = TestStoryDoc)
             => /\ Attrs["id"] = JInt(1001)
                /\ Attrs["name"] = JStr("Test Story")
                /\ Attrs["workflow_state_id"] = JInt(500000)
                /\ Attrs["story_type"] = JStr("feature")

\* The scenario of C7 has run: the three-key Story document was decoded.
C7_Witness ==
    /\ cls = "Story"
    /\ raw.v = TestStoryDoc
    /\ ReturnedEntity
    /\ Attrs["story_type"] = JStr("feature")
    /\ Attrs["description"] = JNull

ReadWithGet(c) ==
    {ClassOf(c).reads[i][1] :
        i \in {j \in 1..Len(ClassOf(c).reads) : ClassOf(c).reads[j][2] = "get"}}

C9_ZuluEqualsExplicitUtc ==
    Called =>
        \A n \in ConvertedFields(cls) \cap DOMAIN raw.v :
            EndsWithZ(raw.v[n]) =>
                LET alt == FromJson(cls, JDict(SetKey(raw.v, n, WithExplicitOffset(raw.v[n]))))
                IN /\ alt.ok = ReturnedEntity
                   /\ ReturnedEntity => DatetimeEq(Attrs[n], alt.value.v.attrs[n])

\* A Doc with created_at "2024-01-15T10:30:00Z" was decoded to 10:30 UTC.
C9_Witness ==
    /\ cls = "Doc"
    /\ "created_at" \in DOMAIN raw.v
    /\ raw.v["created_at"] = ZTimestamp
    /\ ReturnedEntity
    /\ Attrs["created_at"] =
          JDatetime([date |-> "2024-01-15", time |-> "10:30:00", tzinfo |-> "+00:00"])

\* An ISO-8601 string that names its zone: a trailing Z or an offset.
NamesZone(x) == x.t = "str" /\ Len(x.v) = 4 /\ (x.v[4] = "Z" \/ IsOffsetToken(x.v[4]))

\* C10: on every decoded entity, every field declared as a timestamp that
\* the document carried as an ISO-8601 string with Z or an offset holds an
\* offset-aware datetime, never the raw string and never a naive datetime.
C10_TimestampsOffsetAware ==
    (ReturnedEntity /\ cls \in ReadClasses) =>
        \A n \in TimestampFields(cls) \cap DOMAIN raw.v :
            NamesZone(raw.v[n]) => IsAware(Attrs[n])
WriteMethods ==
    \* client.py 118-126
    [create_story |-> [verb |-> "POST", path |-> "/stories", input |-> "CreateStoryParams", build |-> "clean_dict", returns |-> "Story", shape |-> "one"],
    \* client.py 138-152
     update_story |-> [verb |-> "PUT", path |-> "/stories/{story_id}", input |-> "UpdateStoryInput", build |-> "clean_dict", returns |-> "Story", shape |-> "one"],
    \* client.py 196-205
     create_epic |-> [verb |-> "POST", path |-> "/epics", input |-> "CreateEpicInput", build |-> "clean_dict", returns |-> "Epic", shape |-> "one"],
    \* client.py 207-219
     update_epic |-> [verb |-> "PUT", path |-> "/epics/{epic_id}", input |-> "UpdateEpicInput", build |-> "clean_dict", returns |-> "Epic", shape |-> "one"],
    \* client.py 248-261
     create_iteration |-> [verb |-> "POST", path |-> "/iterations", input |-> "CreateIterationInput", build |-> "clean_dict", returns |-> "Iteration", shape |-> "one"],
    \* client.py 263-279
     update_iteration |-> [verb |-> "PUT", path |-> "/iterations/{iteration_id}", input |-> "UpdateIterationInput", build |-> "clean_dict", returns |-> "Iteration", shape |-> "one"],
    \* client.py 290-303
     create_story_link |-> [verb |-> "POST", path |-> "/story-links", input |-> "StoryLinkInput", build |-> "clean_dict", returns |-> "StoryLink", shape |-> "each"],
    \* client.py 316-331
     update_story_link |-> [verb |-> "PUT", path |-> "/story-links/{story_link_id}", input |-> "StoryLinkInput", build |-> "clean_dict", returns |-> "StoryLink", shape |-> "one"],
    \* client.py 362-372
     create_group |-> [verb |-> "POST", path |-> "/groups", input |-> "CreateGroupInput", build |-> "clean_dict", returns |-> "Group", shape |-> "one"],
    \* client.py 374-388
     update_group |-> [verb |-> "PUT", path |-> "/groups/{group_id}", input |-> "UpdateGroupInput", build |-> "clean_dict", returns |-> "Group", shape |-> "one"],
    \* client.py 412-428
     update_key_result |-> [verb |-> "PUT", path |-> "/key-results/{key_result_id}", input |-> "KeyResultInput", build |-> "clean_dict", returns |-> "KeyResult", shape |-> "one"],
    \* client.py 450-459
     create_label |-> [verb |-> "POST", path |-> "/labels", input |-> "CreateLabelInput", build |-> "clean_dict", returns |-> "Label", shape |-> "one"],
    \* client.py 461-475
     update_label |-> [verb |-> "PUT", path |-> "/labels/{label_id}", input |-> "UpdateLabelInput", build |-> "clean_dict", returns |-> "Label", shape |-> "one"],
    \* client.py 497-510
     create_linked_file |-> [verb |-> "POST", path |-> "/linked-files", input |-> "CreateLinkedFilesInput", build |-> "clean_dict", returns |-> "LinkedFiles", shape |-> "one"],
    \* client.py 512-530
     update_linked_file |-> [verb |-> "PUT", path |-> "/linked-files/{linked_file_id}", input |-> "UpdatedLinkedFilesInput", build |-> "clean_dict", returns |-> "LinkedFiles", shape |-> "one"],
    \* client.py 562-575
     update_file |-> [verb |-> "PUT", path |-> "/files/{file_id}", input |-> "CreateFileInput", build |-> "clean_dict", returns |-> "File", shape |-> "one"],
    \* client.py 618-622
     create_objective |-> [verb |-> "POST", path |-> "/objectives", input |-> "CreateObjectiveInput", build |-> "clean_dict", returns |-> "Objective", shape |-> "one"],
    \* client.py 624-630
     update_objective |-> [verb |-> "PUT", path |-> "/objectives/{objective_id}", input |-> "UpdateObjectiveInput", build |-> "clean_dict", returns |-> "Objective", shape |-> "one"],
    \* client.py 646-650
     create_project |-> [verb |-> "POST", path |-> "/projects", input |-> "CreateProjectInput", build |-> "create_project", returns |-> "Project", shape |-> "one"],
    \* client.py 652-658
     update_project |-> [verb |-> "PUT", path |-> "/projects/{project_id}", input |-> "UpdateProjectInput", build |-> "clean_dict", returns |-> "Project", shape |-> "one"],
    \* client.py 689-693
     create_category |-> [verb |-> "POST", path |-> "/categories", input |-> "CreateCategoryInput", build |-> "clean_dict", returns |-> "Category", shape |-> "one"],
    \* client.py 695-701
     update_category |-> [verb |-> "PUT", path |-> "/categories/{category_id}", input |-> "UpdateCategoryInput", build |-> "clean_dict", returns |-> "Category", shape |-> "one"],
    \* client.py 726-748
     update_custom_field |-> [verb |-> "PUT", path |-> "/custom-fields/{custom_field_id}", input |-> "UpdateCustomFieldInput", build |-> "update_custom_field", returns |-> "CustomField", shape |-> "one"],
    \* client.py 1153-1161
     create_doc |-> [verb |-> "POST", path |-> "/documents", input |-> "CreateDocInput", build |-> "clean_dict", returns |-> "DocSlim", shape |-> "one"],
    \* client.py 1163-1174
     update_doc |-> [verb |-> "PUT", path |-> "/documents/{doc_id}", input |-> "UpdateDocInput", build |-> "clean_dict", returns |-> "Doc", shape |-> "one"],
    \* client.py 847-862
     create_story_comment |-> [verb |-> "POST", path |-> "/stories/{story_id}/comments", input |-> "CreateStoryCommentInput", build |-> "clean_dict", returns |-> "StoryComment", shape |-> "one"],
    \* client.py 875-891
     update_story_comment |-> [verb |-> "PUT", path |-> "/stories/{story_id}/comments/{comment_id}", input |-> "UpdateStoryCommentInput", build |-> "clean_dict", returns |-> "StoryComment", shape |-> "one"],
    \* client.py 913-928
     create_epic_comment |-> [verb |-> "POST", path |-> "/epics/{epic_id}/comments", input |-> "CreateStoryCommentInput", build |-> "clean_dict", returns |-> "ThreadedComment", shape |-> "one"],
    \* client.py 941-957
     update_epic_comment |-> [verb |-> "PUT", path |-> "/epics/{epic_id}/comments/{comment_id}", input |-> "UpdateStoryCommentInput", build |-> "clean_dict", returns |-> "ThreadedComment", shape |-> "one"],
    \* client.py 979-992
     create_story_task |-> [verb |-> "POST", path |-> "/stories/{story_id}/tasks", input |-> "CreateTaskInput", build |-> "clean_dict", returns |-> "Task", shape |-> "one"],
    \* client.py 1005-1021
     update_story_task |-> [verb |-> "PUT", path |-> "/stories/{story_id}/tasks/{task_id}", input |-> "UpdateTaskInput", build |-> "update_story_task", returns |-> "Task", shape |-> "one"],
    \* client.py 1051-1068
     create_milestone |-> [verb |-> "POST", path |-> "/milestones", input |-> "CreateMilestoneInput", build |-> "create_milestone", returns |-> "Milestone", shape |-> "one"],
    \* client.py 1070-1090
     update_milestone |-> [verb |-> "PUT", path |-> "/milestones/{milestone_id}", input |-> "UpdateMilestoneInput", build |-> "update_milestone", returns |-> "Milestone", shape |-> "one"],
    \* client.py 1229-1241
     create_entity_template |-> [verb |-> "POST", path |-> "/entity-templates", input |-> "CreateEntityTemplateInput", build |-> "clean_dict", returns |-> "EntityTemplate", shape |-> "one"],
    \* client.py 1243-1256
     update_entity_template |-> [verb |-> "PUT", path |-> "/entity-templates/{template_id}", input |-> "UpdateEntityTemplateInput", build |-> "clean_dict", returns |-> "EntityTemplate", shape |-> "one"],
    \* client.py 1285-1298
     create_epic_health |-> [verb |-> "POST", path |-> "/epics/{epic_id}/health", input |-> "CreateHealthInput", build |-> "clean_dict", returns |-> "Health", shape |-> "one"],
    \* client.py 1310-1321
     update_health |-> [verb |-> "PUT", path |-> "/health/{health_id}", input |-> "UpdateHealthInput", build |-> "clean_dict", returns |-> "Health", shape |-> "one"],
    \* client.py 1381-1397
     create_epic_comment_comment |-> [verb |-> "POST", path |-> "/epics/{epic_id}/comments/{comment_id}", input |-> "CreateStoryCommentInput", build |-> "clean_dict", returns |-> "ThreadedComment", shape |-> "one"],
    \* client.py 1604-1616
     create_multiple_stories |-> [verb |-> "POST", path |-> "/stories/bulk", input |-> "CreateStoryParams", build |-> "create_multiple_stories", returns |-> "StorySlim", shape |-> "each"],
    \* client.py 1618-1623
     update_multiple_stories |-> [verb |-> "PUT", path |-> "/stories/bulk", input |-> "UpdateStoriesInput", build |-> "clean_dict", returns |-> "none", shape |-> "none"],
    \* client.py 1632-1644
     create_story_from_template |-> [verb |-> "POST", path |-> "/stories/from-template", input |-> "CreateStoryFromTemplateInput", build |-> "clean_dict", returns |-> "StorySlim", shape |-> "one"],
    \* client.py 1646-1656
     query_stories |-> [verb |-> "POST", path |-> "/stories/search", input |-> "QueryStoriesInput", build |-> "clean_dict", returns |-> "StorySearchResults", shape |-> "one"],
    \* client.py 1727-1736
     create_generic_integration |-> [verb |-> "POST", path |-> "/integrations/webhook", input |-> "CreateGenericIntegrationInput", build |-> "clean_dict", returns |-> "none", shape |-> "none"],
    \* client.py 1773-1786
     update_uploaded_file |-> [verb |-> "PUT", path |-> "/files/{file_id}", input |-> "UpdateFileInput", build |-> "clean_dict", returns |-> "UploadedFile", shape |-> "one"]]

\* The methods that send no Input record: GET, DELETE and the PUT/POST without
\* payload (or with a payload built from plain arguments).
ReadMethods ==
    \* client.py 93-94
    [get_current_member |-> [verb |-> "GET", path |-> "/member", returns |-> "Member", shape |-> "one"],
    \* client.py 96-97
     search |-> [verb |-> "GET", path |-> "/search", returns |-> "none", shape |-> "raw"],
    \* client.py 99-102
     search_stories |-> [verb |-> "GET", path |-> "/search/stories", returns |-> "SearchStoryResult", shape |-> "one"],
    \* client.py 128-136
     get_story |-> [verb |-> "GET", path |-> "/stories/{story_id}", returns |-> "Story", shape |-> "one"],
    \* client.py 154-159
     delete_story |-> [verb |-> "DELETE", path |-> "/stories/{story_id}", returns |-> "none", shape |-> "none"],
    \* client.py 162-167
     list_workflows |-> [verb |-> "GET", path |-> "/workflows", returns |-> "Workflow", shape |-> "each"],
    \* client.py 169-174
     get_workflow |-> [verb |-> "GET", path |-> "/workflows/{workflow_id}", returns |-> "Workflow", shape |-> "one"],
    \* client.py 177-183
     list_epics |-> [verb |-> "GET", path |-> "/epics", returns |-> "Epic", shape |-> "each"],
    \* client.py 185-194
     get_epic |-> [verb |-> "GET", path |-> "/epics/{epic_id}", returns |-> "Epic", shape |-> "one"],
    \* client.py 221-226
     delete_epic |-> [verb |-> "DELETE", path |-> "/epics/{epic_id}", returns |-> "none", shape |-> "none"],
    \* client.py 229-235
     list_iterations |-> [verb |-> "GET", path |-> "/iterations", returns |-> "Iteration", shape |-> "each"],
    \* client.py 237-246
     get_iteration |-> [verb |-> "GET", path |-> "/iterations/{iteration_id}", returns |-> "Iteration", shape |-> "one"],
    \* client.py 281-286
     delete_iteration |-> [verb |-> "DELETE", path |-> "/iterations/{iteration_id}", returns |-> "none", shape |-> "none"],
    \* client.py 305-314
     get_story_link |-> [verb |-> "GET", path |-> "/story-links/{story_link_id}", returns |-> "StoryLink", shape |-> "one"],
    \* client.py 333-340
     delete_story_link |-> [verb |-> "DELETE", path |-> "/story-links/{story_link_id}", returns |-> "none", shape |-> "none"],
    \* client.py 343-350
     list_groups |-> [verb |-> "GET", path |-> "/groups", returns |-> "Group", shape |-> "each"],
    \* client.py 352-360
     get_group |-> [verb |-> "GET", path |-> "/groups/{group_id}", returns |-> "Group", shape |-> "one"],
    \* client.py 390-398
     delete_group |-> [verb |-> "DELETE", path |-> "/groups/{group_id}", returns |-> "none", shape |-> "none"],
    \* client.py 401-410
     get_key_result |-> [verb |-> "GET", path |-> "/key-results/{key_result_id}", returns |-> "KeyResult", shape |-> "one"],
    \* client.py 431-438
     list_labels |-> [verb |-> "GET", path |-> "/labels", returns |-> "Label", shape |-> "each"],
    \* client.py 440-448
     get_label |-> [verb |-> "GET", path |-> "/labels/{label_id}", returns |-> "Label", shape |-> "one"],
    \* client.py 477-485
     delete_label |-> [verb |-> "DELETE", path |-> "/labels/{label_id}", returns |-> "none", shape |-> "none"],
    \* client.py 488-495
     list_linked_files |-> [verb |-> "GET", path |-> "/linked-files", returns |-> "LinkedFiles", shape |-> "each"],
    \* client.py 532-540
     delete_linked_file |-> [verb |-> "DELETE", path |-> "/linked-files/{linked_file_id}", returns |-> "none", shape |-> "none"],
    \* client.py 543-550
     list_files |-> [verb |-> "GET", path |-> "/files", returns |-> "File", shape |-> "each"],
    \* client.py 552-560
     get_file |-> [verb |-> "GET", path |-> "/files/{file_id}", returns |-> "File", shape |-> "one"],
    \* client.py 577-585
     delete_file |-> [verb |-> "DELETE", path |-> "/files/{file_id}", returns |-> "none", shape |-> "none"],
    \* client.py 588-595
     list_members |-> [verb |-> "GET", path |-> "/members", returns |-> "Member", shape |-> "each"],
    \* client.py 597-607
     get_member |-> [verb |-> "GET", path |-> "/members/{member_id}", returns |-> "Member", shape |-> "one"],
    \* client.py 610-612
     list_objectives |-> [verb |-> "GET", path |-> "/objectives", returns |-> "Objective", shape |-> "each"],
    \* client.py 614-616
     get_objective |-> [verb |-> "GET", path |-> "/objectives/{objective_id}", returns |-> "Objective", shape |-> "one"],
    \* client.py 632-633
     delete_objective |-> [verb |-> "DELETE", path |-> "/objectives/{objective_id}", returns |-> "none", shape |-> "none"],
    \* client.py 637-639
     list_projects |-> [verb |-> "GET", path |-> "/projects", returns |-> "Project", shape |-> "each"],
    \* client.py 641-644
     get_project |-> [verb |-> "GET", path |-> "/projects/{project_id}", returns |-> "Project", shape |-> "one"],
    \* client.py 660-661
     delete_project |-> [verb |-> "DELETE", path |-> "/projects/{project_id}", returns |-> "none", shape |-> "none"],
    \* client.py 665-667
     list_repositories |-> [verb |-> "GET", path |-> "/repositories", returns |-> "Repository", shape |-> "each"],
    \* client.py 669-671
     get_repository |-> [verb |-> "GET", path |-> "/repositories/{repository_id}", returns |-> "Repository", shape |-> "one"],
    \* client.py 675-677
     get_epic_workflow |-> [verb |-> "GET", path |-> "/epic-workflow", returns |-> "EpicWorkflow", shape |-> "one"],
    \* client.py 681-683
     list_categories |-> [verb |-> "GET", path |-> "/categories", returns |-> "Category", shape |-> "each"],
    \* client.py 685-687
     get_category |-> [verb |-> "GET", path |-> "/categories/{category_id}", returns |-> "Category", shape |-> "one"],
    \* client.py 703-704
     delete_category |-> [verb |-> "DELETE", path |-> "/categories/{category_id}", returns |-> "none", shape |-> "none"],
    \* client.py 708-714
     list_custom_fields |-> [verb |-> "GET", path |-> "/custom-fields", returns |-> "CustomField", shape |-> "each"],
    \* client.py 716-724
     get_custom_field |-> [verb |-> "GET", path |-> "/custom-fields/{custom_field_id}", returns |-> "CustomField", shape |-> "one"],
    \* client.py 750-755
     delete_custom_field |-> [verb |-> "DELETE", path |-> "/custom-fields/{custom_field_id}", returns |-> "none", shape |-> "none"],
    \* client.py 1131-1137
     list_docs |-> [verb |-> "GET", path |-> "/documents", returns |-> "DocSlim", shape |-> "each"],
    \* client.py 1139-1151
     get_doc |-> [verb |-> "GET", path |-> "/documents/{doc_id}", returns |-> "Doc", shape |-> "one"],
    \* client.py 1176-1181
     delete_doc |-> [verb |-> "DELETE", path |-> "/documents/{doc_id}", returns |-> "none", shape |-> "none"],
    \* client.py 1183-1191
     list_document_epics |-> [verb |-> "GET", path |-> "/documents/{doc_id}/epics", returns |-> "EpicSlim", shape |-> "each"],
    \* client.py 1193-1199
     link_document_to_epic |-> [verb |-> "PUT", path |-> "/documents/{doc_id}/epics/{epic_id}", returns |-> "none", shape |-> "none"],
    \* client.py 1201-1207
     unlink_document_from_epic |-> [verb |-> "DELETE", path |-> "/documents/{doc_id}/epics/{epic_id}", returns |-> "none", shape |-> "none"],
    \* client.py 837-845
     list_story_comments |-> [verb |-> "GET", path |-> "/stories/{story_id}/comments", returns |-> "StoryComment", shape |-> "each"],
    \* client.py 864-873
     get_story_comment |-> [verb |-> "GET", path |-> "/stories/{story_id}/comments/{comment_id}", returns |-> "StoryComment", shape |-> "one"],
    \* client.py 893-899
     delete_story_comment |-> [verb |-> "DELETE", path |-> "/stories/{story_id}/comments/{comment_id}", returns |-> "none", shape |-> "none"],
    \* client.py 903-911
     list_epic_comments |-> [verb |-> "GET", path |-> "/epics/{epic_id}/comments", returns |-> "ThreadedComment", shape |-> "each"],
    \* client.py 930-939
     get_epic_comment |-> [verb |-> "GET", path |-> "/epics/{epic_id}/comments/{comment_id}", returns |-> "ThreadedComment", shape |-> "one"],
    \* client.py 959-965
     delete_epic_comment |-> [verb |-> "DELETE", path |-> "/epics/{epic_id}/comments/{comment_id}", returns |-> "none", shape |-> "none"],
    \* client.py 969-977
     list_story_tasks |-> [verb |-> "GET", path |-> "/stories/{story_id}/tasks", returns |-> "Task", shape |-> "each"],
    \* client.py 994-1003
     get_story_task |-> [verb |-> "GET", path |-> "/stories/{story_id}/tasks/{task_id}", returns |-> "Task", shape |-> "one"],
    \* client.py 1023-1029
     delete_story_task |-> [verb |-> "DELETE", path |-> "/stories/{story_id}/tasks/{task_id}", returns |-> "none", shape |-> "none"],
    \* client.py 1033-1039
     list_milestones |-> [verb |-> "GET", path |-> "/milestones", returns |-> "Milestone", shape |-> "each"],
    \* client.py 1041-1049
     get_milestone |-> [verb |-> "GET", path |-> "/milestones/{milestone_id}", returns |-> "Milestone", shape |-> "one"],
    \* client.py 1092-1097
     delete_milestone |-> [verb |-> "DELETE", path |-> "/milestones/{milestone_id}", returns |-> "none", shape |-> "none"],
    \* client.py 1099-1107
     list_milestone_epics |-> [verb |-> "GET", path |-> "/milestones/{milestone_id}/epics", returns |-> "Epic", shape |-> "each"],
    \* client.py 1109-1117
     list_category_milestones |-> [verb |-> "GET", path |-> "/categories/{category_id}/milestones", returns |-> "Milestone", shape |-> "each"],
    \* client.py 1119-1127
     list_category_objectives |-> [verb |-> "GET", path |-> "/categories/{category_id}/objectives", returns |-> "Objective", shape |-> "each"],
    \* client.py 1211-1217
     list_entity_templates |-> [verb |-> "GET", path |-> "/entity-templates", returns |-> "EntityTemplate", shape |-> "each"],
    \* client.py 1219-1227
     get_entity_template |-> [verb |-> "GET", path |-> "/entity-templates/{template_id}", returns |-> "EntityTemplate", shape |-> "one"],
    \* client.py 1258-1263
     delete_entity_template |-> [verb |-> "DELETE", path |-> "/entity-templates/{template_id}", returns |-> "none", shape |-> "none"],
    \* client.py 1265-1267
     enable_story_templates |-> [verb |-> "PUT", path |-> "/entity-templates/enable", returns |-> "none", shape |-> "none"],
    \* client.py 1269-1271
     disable_story_templates |-> [verb |-> "PUT", path |-> "/entity-templates/disable", returns |-> "none", shape |-> "none"],
    \* client.py 1275-1283
     get_epic_health |-> [verb |-> "GET", path |-> "/epics/{epic_id}/health", returns |-> "Health", shape |-> "one"],
    \* client.py 1300-1308
     list_epic_health_history |-> [verb |-> "GET", path |-> "/epics/{epic_id}/health-history", returns |-> "Health", shape |-> "each"],
    \* client.py 1325-1339
     list_epic_stories |-> [verb |-> "GET", path |-> "/epics/{epic_id}/stories", returns |-> "StorySlim", shape |-> "each"],
    \* client.py 1341-1362
     list_epics_paginated |-> [verb |-> "GET", path |-> "/epics/paginated", returns |-> "none", shape |-> "raw"],
    \* client.py 1364-1372
     list_epic_documents |-> [verb |-> "GET", path |-> "/epics/{epic_id}/documents", returns |-> "DocSlim", shape |-> "each"],
    \* client.py 1374-1379
     unlink_productboard_from_epic |-> [verb |-> "POST", path |-> "/epics/{epic_id}/unlink-productboard", returns |-> "none", shape |-> "none"],
    \* client.py 1401-1411
     get_external_link_stories |-> [verb |-> "GET", path |-> "/external-link/stories", returns |-> "StorySlim", shape |-> "each"],
    \* client.py 1415-1432
     list_group_stories |-> [verb |-> "GET", path |-> "/groups/{group_id}/stories", returns |-> "StorySlim", shape |-> "each"],
    \* client.py 1436-1452
     list_iteration_stories |-> [verb |-> "GET", path |-> "/iterations/{iteration_id}/stories", returns |-> "StorySlim", shape |-> "each"],
    \* client.py 1454-1456
     enable_iterations |-> [verb |-> "PUT", path |-> "/iterations/enable", returns |-> "none", shape |-> "none"],
    \* client.py 1458-1460
     disable_iterations |-> [verb |-> "PUT", path |-> "/iterations/disable", returns |-> "none", shape |-> "none"],
    \* client.py 1464-1472
     list_label_epics |-> [verb |-> "GET", path |-> "/labels/{label_id}/epics", returns |-> "EpicSlim", shape |-> "each"],
    \* client.py 1474-1488
     list_label_stories |-> [verb |-> "GET", path |-> "/labels/{label_id}/stories", returns |-> "StorySlim", shape |-> "each"],
    \* client.py 1492-1500
     get_linked_file |-> [verb |-> "GET", path |-> "/linked-files/{linked_file_id}", returns |-> "LinkedFiles", shape |-> "one"],
    \* client.py 1504-1512
     list_objective_epics |-> [verb |-> "GET", path |-> "/objectives/{objective_id}/epics", returns |-> "EpicSlim", shape |-> "each"],
    \* client.py 1516-1532
     list_project_stories |-> [verb |-> "GET", path |-> "/projects/{project_id}/stories", returns |-> "StorySlim", shape |-> "each"],
    \* client.py 1536-1544
     get_story_history |-> [verb |-> "GET", path |-> "/stories/{story_id}/history", returns |-> "StoryHistory", shape |-> "each"],
    \* client.py 1548-1556
     list_story_sub_tasks |-> [verb |-> "GET", path |-> "/stories/{story_id}/sub-tasks", returns |-> "StorySlim", shape |-> "each"],
    \* client.py 1560-1573
     create_story_reaction |-> [verb |-> "POST", path |-> "/stories/{story_id}/comments/{comment_id}/reactions", returns |-> "none", shape |-> "none"],
    \* client.py 1575-1588
     delete_story_reaction |-> [verb |-> "DELETE", path |-> "/stories/{story_id}/comments/{comment_id}/reactions", returns |-> "none", shape |-> "none"],
    \* client.py 1590-1600
     unlink_comment_thread_from_slack |-> [verb |-> "POST", path |-> "/stories/{story_id}/comments/{comment_id}/unlink-from-slack", returns |-> "none", shape |-> "none"],
    \* client.py 1625-1630
     delete_multiple_stories |-> [verb |-> "DELETE", path |-> "/stories/bulk", returns |-> "none", shape |-> "none"],
    \* client.py 1660-1671
     search_epics |-> [verb |-> "GET", path |-> "/search/epics", returns |-> "EpicSearchResults", shape |-> "one"],
    \* client.py 1673-1684
     search_iterations |-> [verb |-> "GET", path |-> "/search/iterations", returns |-> "IterationSearchResults", shape |-> "one"],
    \* client.py 1686-1697
     search_milestones |-> [verb |-> "GET", path |-> "/search/milestones", returns |-> "ObjectiveSearchResults", shape |-> "one"],
    \* client.py 1699-1710
     search_objectives |-> [verb |-> "GET", path |-> "/search/objectives", returns |-> "ObjectiveSearchResults", shape |-> "one"],
    \* client.py 1712-1723
     search_documents |-> [verb |-> "GET", path |-> "/search/documents", returns |-> "DocumentSearchResults", shape |-> "one"],
    \* client.py 1738-1745
     get_generic_integration |-> [verb |-> "GET", path |-> "/integrations/webhook/{integration_id}", returns |-> "none", shape |-> "raw"],
    \* client.py 1747-1752
     delete_generic_integration |-> [verb |-> "DELETE", path |-> "/integrations/webhook/{integration_id}", returns |-> "none", shape |-> "none"]]

----------------------------------------------------------------------------
(* The write side: client.py builds the json= payload of a request from    *)
(* the __dict__ of an Input record.                                        *)

\* A filter that drops every falsy value (`if v`), not only None.
DropFalsy(d) == [k \in {j \in DOMAIN d : Truthy(d[j])} |-> d[k]]

\* A filter that keeps every item.
KeepAll(d) == d

\* _clean_dict(data): {k: v for k, v in data.items() if v is not None}
CleanDict(d) == [k \in {j \in DOMAIN d : d[j] # JNull} |-> d[k]]

\* create_project: payload = {k: v for k, v in params.__dict__.items() if v is not None}
CreateProjectPayload(d) == [k \in {j \in DOMAIN d : d[j] # JNull} |-> d[k]]

\* update_story_task: update_data = {k: v for k, v in task.__dict__.items() if v is not None}
UpdateStoryTaskData(d) == [k \in {j \in DOMAIN d : d[j] # JNull} |-> d[k]]

\* d[k] = x where the name ref is bound to the record's own __dict__: the
\* assignment lands on the record.
SetItemOnRecord(objs, ref, k, x) ==
    [objs EXCEPT ![ref] = SetKey(@, k, x), !["record"] = SetKey(@, k, x)]

\* d[k] = x: the item assignment lands on the one object the name ref is
\* bound to among objs, the objects of the method's frame.
SetItem(objs, ref, k, x) == [objs EXCEPT ![ref] = SetKey(@, k, x)]

\* create_milestone: request_data = _clean_dict(milestone.__dict__.copy()), a
\* new dict; then request_data["categories"] of a non-empty list becomes
\* [_clean_dict(cat.__dict__) for cat in ...].  The objects after the builder:
\* the record's __dict__ and request_data.
CreateMilestoneObjects(d) ==
    LET objs == [record |-> d, request_data |-> CleanDict(d)] IN
    IF "categories" \in DOMAIN objs.request_data /\ Truthy(objs.request_data["categories"])
    THEN SetItem(objs, "request_data", "categories",
                 JList([i \in 1..Len(objs.request_data["categories"].v) |->
                           JDict(CleanDict(objs.request_data["categories"].v[i].v.attrs))]))
    ELSE objs

CreateMilestoneRequestData(d) == CreateMilestoneObjects(d).request_data

\* update_milestone: update_data is the dict the inline None filter builds;
\* then update_data["categories"] of a non-empty list becomes
\* [cat.__dict__ for cat in ...]: the sub-records' dicts as they are (the
\* payload holds the very objects; nothing assigns into them).
UpdateMilestoneObjects(d) ==
    LET objs == [record |-> d, update_data |-> [k \in {j \in DOMAIN d : d[j] # JNull} |-> d[k]]] IN
    IF "categories" \in DOMAIN objs.update_data /\ Truthy(objs.update_data["categories"])
    THEN SetItem(objs, "update_data", "categories",
                 JList([i \in 1..Len(objs.update_data["categories"].v) |->
                           JDict(objs.update_data["categories"].v[i].v.attrs)]))
    ELSE objs

UpdateMilestoneData(d) == UpdateMilestoneObjects(d).update_data

\* update_custom_field: update_data is the dict the inline None filter builds;
\* then update_data["values"] of a non-empty list becomes
\* [{k: v for k, v in val.__dict__.items() if v is not None} for val in ...].
UpdateCustomFieldObjects(d) ==
    LET objs == [record |-> d, update_data |-> [k \in {j \in DOMAIN d : d[j] # JNull} |-> d[k]]] IN
    IF "values" \in DOMAIN objs.update_data /\ Truthy(objs.update_data["values"])
    THEN SetItem(objs, "update_data", "values",
                 JList([i \in 1..Len(objs.update_data["values"].v) |->
                           LET val == objs.update_data["values"].v[i].v.attrs IN
                           JDict([k \in {j \in DOMAIN val : val[j] # JNull} |-> val[k]])]))
    ELSE objs

UpdateCustomFieldData(d) == UpdateCustomFieldObjects(d).update_data

\* create_multiple_stories: {"stories": [_clean_dict(s.__dict__) for s in stories]}
CreateMultipleStoriesPayload(stories) ==
    [k \in {"stories"} |->
        JList([i \in 1..Len(stories) |-> JDict(CleanDict(stories[i].v.attrs))])]

----------------------------------------------------------------------------
(* The Input records a caller can build.                                   *)

\* The concrete values of a plain field, the falsy one included.
PlainValues(f) ==
    CASE f.kind = "scalar" /\ f.of = "bool" -> {JBool(FALSE), JBool(TRUE)}
      [] f.kind = "scalar" /\ f.of = "int" -> {JInt(0), JInt(7)}
      [] f.kind = "scalar" -> {JStr(""), JStr(f.name)}
      [] f.kind = "datetime" ->
            {JDatetime([date |-> "2024-01-15", time |-> "10:30:00", tzinfo |-> "+00:00"])}
      [] f.kind = "dict" -> {JDict(EmptyDict), JDict([k \in {"key"} |-> JInt(7)])}
      [] f.kind = "list" -> {JList(<<>>), JList(<<JInt(7)>>)}
      [] OTHER -> {JInt(0), JStr("any")}

\* The value a caller passes for a required plain argument.
SampleValue(f) ==
    CASE f.kind = "scalar" /\ f.of = "bool" -> JBool(TRUE)
      [] f.kind = "scalar" /\ f.of = "int" -> JInt(7)
      [] f.kind = "scalar" -> JStr(f.name)
      [] f.kind = "list" -> JList(<<JInt(7)>>)
      [] f.kind = "dict" -> JDict([k \in {"key"} |-> JInt(7)])
      [] OTHER -> JInt(7)

\* C(k1=v1, ...): the instance the dataclass constructor builds.
New(c, kw) == DataclassInit(c, kw).value

PlainFields(c) == {n \in FieldNames(c) : FieldOf(c, n).kind \notin {"record", "record_list"}}
RequiredArgs(c) == [n \in Required(c) \cap PlainFields(c) |-> SampleValue(FieldOf(c, n))]

\* The sub-records (categories, enum values, key-result values): no optional
\* argument passed, or one.
SubRecords(c) ==
    {New(c, RequiredArgs(c))}
    \cup UNION {{New(c, SetKey(RequiredArgs(c), n, x)) : x \in PlainValues(FieldOf(c, n))} :
                  n \in Optionals(c)}

FieldValues(f) ==
    CASE f.kind = "record" -> SubRecords(f.of)
      [] f.kind = "record_list" -> {JList(<<>>)} \cup {JList(<<s>>) : s \in SubRecords(f.of)}
      [] OTHER -> PlainValues(f)

\* The record with no optional argument passed.
Unset(c) == New(c, RequiredArgs(c))

\* The Input records of class c: no optional argument passed, or one, set to
\* a concrete value or to None.
Records(c) ==
    {Unset(c)}
    \cup UNION {{New(c, SetKey(RequiredArgs(c), n, x)) :
                     x \in FieldValues(FieldOf(c, n)) \cup {JNull}} :
                  n \in Optionals(c)}

\* The argument of a write method: an Input record, or for
\* create_multiple_stories a list of them.
Arguments(m) ==
    IF m \in DOMAIN ReadMethods THEN {JNull}
    ELSE IF WriteMethods[m].build = "create_multiple_stories"
    THEN {JList(<<>>), JList(<<Unset("CreateStoryParams"), Unset("CreateStoryParams")>>)}
         \cup {JList(<<r>>) : r \in Records("CreateStoryParams")}
    ELSE Records(WriteMethods[m].input)

\* The 2xx bodies the server answers the method m with.
Bodies(m) ==
    CASE m.shape = "one" -> {JDict(MinimalDoc(m.returns)), JDict(FullDoc(m.returns))}
      [] m.shape = "each" -> {JList(<<>>), JList(<<JDict(MinimalDoc(m.returns))>>)}
      [] OTHER -> {JNull, JDict(EmptyDict)}

\* POST /documents is answered with the whole document that was created.
CreatedBodies(m) ==
    IF m.verb = "POST" /\ m.path = "/documents" THEN {JDict(FullDoc("Doc"))} ELSE {}

\* The statuses of a failed request, and the JSON body that comes with them.
ErrorStatuses == {400, 401, 404, 500}
ErrorBody == JDict([k \in {"error", "message"} |-> JStr(k)])

\* response.content of a response without a body, and the Response object.
NoContent == [t |-> "bytes", v |-> <<>>]
JResponse(status) == [t |-> "response", v |-> status]

\* Statuses below 400 other than 200, 201 and 204.
OtherStatuses == {202, 302}

\* The responses the server answers the method m with: 200 (201 for POST)
\* with a body, 204 without one, another status below 400 with a body, or
\* an error status.
Responses(m) ==
    {[status |-> IF m.verb = "POST" THEN 201 ELSE 200, body |-> b] :
        b \in Bodies(m) \cup CreatedBodies(m)}
    \cup {[status |-> 204, body |-> NoContent]}
    \cup {[status |-> s, body |-> b] : s \in OtherStatuses, b \in Bodies(m)}
    \cup {[status |-> s, body |-> ErrorBody] : s \in ErrorStatuses}

\* requests.exceptions.HTTPError: what raise_for_status() raises, carrying
\* the response and so its status code.
HTTPError(status) == [type |-> "HTTPError", what |-> ToString(status), names |-> {}]

----------------------------------------------------------------------------
(* SpecEncode: one call of a write method.                                 *)

InitEncode ==
    /\ models = Registry
    /\ method \in DOMAIN WriteMethods \cup DOMAIN ReadMethods
    /\ record \in Arguments(method)
    /\ sent = Pending /\ http = <<>>
    /\ cls = "none" /\ raw = JNull /\ data = JNull /\ outcome = Pending /\ second = Pending
    /\ pages = <<>> /\ gen = <<>> /\ yielded = <<>> /\ requests = <<>>
    /\ heap = record /\ calls = <<>>

\* [C.from_json(x) for x in data] as a result (e is the comprehension).
ListResult(call) ==
    The({[ok |-> e.ok, value |-> JList(e.value), error |-> e.error, data |-> JList(e.data)] :
            e \in {call}})

\* return response.json() if response.content else response
ResponseJson(resp) == IF resp.body = NoContent THEN JResponse(resp.status) ELSE resp.body

\* The return statement of a method on what _make_request returned.  A
\* Response object is no dict (from_json raises) but it is iterable: it
\* yields the chunks of its content, none when the content is empty.
ReturnOf(m, body) ==
    CASE m.shape = "one" -> FromJson(m.returns, body)
      [] m.shape = "each" ->
            IF body.t = "list" THEN ListResult(EachFromJson(m.returns, body.v, 1, <<>>))
            ELSE IF body.t = "response" THEN Returned(JList(<<>>), body)
            ELSE Raised(TypeErrorNotIterable, body)
      [] m.shape = "raw" -> Returned(body, body)
      [] OTHER -> Returned(JNull, body)

\* A method that runs its return statement whatever the status.
RespondUnchecked(m, resp) == ReturnOf(m, ResponseJson(resp))

\* json.JSONDecodeError, and a _make_request that reads response.json()
\* whether or not there is content.
JSONDecodeError == [type |-> "JSONDecodeError", what |-> "Expecting value", names |-> {}]
RespondJsonAlways(m, resp) ==
    IF resp.status >= 400 THEN Raised(HTTPError(resp.status), resp.body)
    ELSE IF resp.body = NoContent THEN Raised(JSONDecodeError, resp.body)
    ELSE ReturnOf(m, resp.body)

\* The method m on the response resp: _make_request calls
\* response.raise_for_status(), which raises on 4xx and 5xx, and only then
\* returns response.json() to the return statement of m.
Respond(m, resp) ==
    IF resp.status >= 400 THEN Raised(HTTPError(resp.status), resp.body)
    ELSE ReturnOf(m, ResponseJson(resp))

\* data = self._make_request(verb, path, json=payload) answered with resp,
\* then the return statement of the method m.
Transmit(m, payload, resp) ==
    /\ sent' = [status |-> "sent", value |-> payload, error |-> NoError]
    /\ http' = Append(http, [verb |-> m.verb, path |-> m.path, status |-> resp.status])
    /\ cls' = m.returns
    /\ raw' = resp.body
    /\ Finish(Respond(m, resp))
    /\ UNCHANGED <<models, method, record, second, calls>>
    /\ UNCHANGED pagVars

\* Every method whose payload is json=_clean_dict(x.__dict__): the
\* comprehension reads x.__dict__ and nothing is assigned.
CallCleanDictMethod ==
    /\ sent.status = "none"
    /\ method \in DOMAIN WriteMethods
    /\ WriteMethods[method].build = "clean_dict"
    /\ \E resp \in Responses(WriteMethods[method]) :
          Transmit(WriteMethods[method], JDict(CleanDict(record.v.attrs)), resp)
    /\ heap' = heap

create_project ==
    /\ sent.status = "none"
    /\ method = "create_project"
    /\ \E resp \in Responses(WriteMethods[method]) :
          Transmit(WriteMethods[method], JDict(CreateProjectPayload(record.v.attrs)), resp)
    /\ heap' = heap

update_story_task ==
    /\ sent.status = "none"
    /\ method = "update_story_task"
    /\ \E resp \in Responses(WriteMethods[method]) :
          Transmit(WriteMethods[method], JDict(UpdateStoryTaskData(record.v.attrs)), resp)
    /\ heap' = heap

create_milestone ==
    /\ sent.status = "none"
    /\ method = "create_milestone"
    /\ \E resp \in Responses(WriteMethods[method]) :
          Transmit(WriteMethods[method], JDict(CreateMilestoneRequestData(record.v.attrs)), resp)
    /\ heap' = [heap EXCEPT !.v.attrs = CreateMilestoneObjects(@).record]

update_milestone ==
    /\ sent.status = "none"
    /\ method = "update_milestone"
    /\ \E resp \in Responses(WriteMethods[method]) :
          Transmit(WriteMethods[method], JDict(UpdateMilestoneData(record.v.attrs)), resp)
    /\ heap' = [heap EXCEPT !.v.attrs = UpdateMilestoneObjects(@).record]

update_custom_field ==
    /\ sent.status = "none"
    /\ method = "update_custom_field"
    /\ \E resp \in Responses(WriteMethods[method]) :
          Transmit(WriteMethods[method], JDict(UpdateCustomFieldData(record.v.attrs)), resp)
    /\ heap' = [heap EXCEPT !.v.attrs = UpdateCustomFieldObjects(@).record]

create_multiple_stories ==
    /\ sent.status = "none"
    /\ method = "create_multiple_stories"
    /\ \E resp \in Responses(WriteMethods[method]) :
          Transmit(WriteMethods[method], JDict(CreateMultipleStoriesPayload(record.v)), resp)
    /\ heap' = heap

\* Every method that sends no Input record: get_*, list_*, delete_*, ...
CallReadMethod ==
    /\ sent.status = "none"
    /\ method \in DOMAIN ReadMethods
    /\ \E resp \in Responses(ReadMethods[method]) : Transmit(ReadMethods[method], JNull, resp)
    /\ heap' = heap

NextEncode ==
    \/ CallReadMethod
    \/ CallCleanDictMethod
    \/ create_project
    \/ update_story_task
    \/ create_milestone
    \/ update_milestone
    \/ update_custom_field
    \/ create_multiple_stories

SpecEncode == InitEncode /\ [][NextEncode]_vars

----------------------------------------------------------------------------
(* Properties of the payloads (SpecEncode).                                *)

Transmitted == sent.status = "sent" /\ method \in DOMAIN WriteMethods

\* The Input records of the call and the payload document of each:
\* the i-th story of create_multiple_stories and the i-th element of
\* "stories", otherwise the record and the payload.
Encodings == IF method = "create_multiple_stories" THEN 1..Len(record.v) ELSE {1}
RecordAt(i) == IF method = "create_multiple_stories" THEN record.v[i].v ELSE record.v
PayloadAt(i) ==
    IF method = "create_multiple_stories" THEN sent.value.v["stories"].v[i].v ELSE sent.value.v

\* No optional argument was passed: every optional field holds its default.
AllUnset(r) == \A n \in Optionals(r.cls) : r.attrs[n] = FieldOf(r.cls, n).default

DefaultedOptionals(c) == {n \in Optionals(c) : FieldOf(c, n).default # JNull}

HoldsSubRecord(x) ==
    \/ x.t = "obj"
    \/ x.t = "list" /\ \E j \in 1..Len(x.v) : x.v[j].t = "obj"

\* C5: every field of the record that holds a concrete value (anything but
\* None, the falsy values included) is in the payload with exactly that
\* value; sub-records, which are re-encoded, are C6's.
C5_OnlyNoneOmitted ==
    Transmitted =>
        \A i \in Encodings :
            \A n \in DOMAIN RecordAt(i).attrs :
                (RecordAt(i).attrs[n] # JNull /\ ~HoldsSubRecord(RecordAt(i).attrs[n]))
                => /\ n \in DOMAIN PayloadAt(i)
                   /\ PayloadAt(i)[n] = RecordAt(i).attrs[n]

\* update_story_task with UpdateTaskInput(complete=False) has sent complete: false.
C5_Witness ==
    /\ Transmitted
    /\ method = "update_story_task"
    /\ record.v.attrs["complete"] = JBool(FALSE)
    /\ "complete" \in DOMAIN sent.value.v
    /\ sent.value.v["complete"] = JBool(FALSE)

\* x is the plain map of the sub-record s with its None fields omitted.
CleanedMapOf(x, s) ==
    /\ x.t = "dict"
    /\ DOMAIN x.v = {k \in DOMAIN s.v.attrs : s.v.attrs[k] # JNull}
    /\ \A k \in DOMAIN x.v : x.v[k] = s.v.attrs[k]

\* C6: every sub-record an Input record carries (milestone categories,
\* custom-field enum values, key-result values) is embedded in the payload
\* as a plain map without its None fields: no nested null, no raw record.
C6_SubRecordsCleaned ==
    Transmitted =>
        \A i \in Encodings :
            \A n \in DOMAIN RecordAt(i).attrs :
                LET x == RecordAt(i).attrs[n] IN
                HoldsSubRecord(x) =>
                    /\ n \in DOMAIN PayloadAt(i)
                    /\ IF x.t = "obj" THEN CleanedMapOf(PayloadAt(i)[n], x)
                       ELSE /\ PayloadAt(i)[n].t = "list"
                            /\ Len(PayloadAt(i)[n].v) = Len(x.v)
                            /\ \A j \in 1..Len(x.v) : CleanedMapOf(PayloadAt(i)[n].v[j], x.v[j])

----------------------------------------------------------------------------
(* The paginator: search_stories_iter and the generator _paginate_results. *)
(* A URL or path is a sequence of tokens, "/" being one of them.           *)

MaxPages == 3       \* the longest chain of pages a server holds for a query
MaxRequests == 5    \* requests a run may issue for a query (a chain whose last
                    \* page carries a cursor is re-requested for ever)

Queries == {"q1"}

Host == "https://api.app.shortcut.com"
\* APIClient.BASE_URL = "https://api.app.shortcut.com/api/v3"
BASE_URL == <<Host, "/", "api/v3">>
\* The path search_stories requests.
SearchStoriesPath == <<"/", "search/stories">>

\* s.startswith("http")
StartsWithHttp(s) == Len(s) > 0 /\ s[1] = Host

\* s.split(sep)[-1]: what follows the last occurrence of sep, or s itself
\* when sep does not occur.
SplitLast(s, sep) ==
    LET at == {p \in 1..(Len(s) - Len(sep) + 1) : SubSeq(s, p, p + Len(sep) - 1) = sep}
    IN IF at = {} THEN s
       ELSE SubSeq(s, (CHOOSE p \in at : \A r \in at : r <= p) + Len(sep), Len(s))

\* s.lstrip("/")
LStrip(s) ==
    LET rest == {p \in 1..Len(s) : s[p] # "/"}
    IN IF rest = {} THEN <<>>
       ELSE SubSeq(s, CHOOSE p \in rest : \A r \in rest : p <= r, Len(s))

\* _make_request: url = f"{self.base_url}/{path.lstrip('/')}"
UrlOf(path) == BASE_URL \o <<"/">> \o LStrip(path)

\* A paginator that requests the search path again, whatever the cursor.
NextPathForgotten(next_url) == SearchStoriesPath

\* _paginate_results: the path requested for the cursor next_url.
NextPath(next_url) ==
    IF StartsWithHttp(next_url) THEN SplitLast(next_url, BASE_URL) ELSE next_url

----------------------------------------------------------------------------
(* The server: for each query a chain of responses; it answers the k-th    *)
(* request of the query with the k-th response, and a request past the end *)
(* of the chain with the last one again (the same cursor, the same page).  *)

\* The forms a server writes a cursor in.
CursorForms == {"absolute", "prefixed", "path"}

\* The cursor that points to page k.
Cursor(k, form) ==
    CASE form = "absolute" -> BASE_URL \o <<"/", "search/stories", "?next=c" \o ToString(k)>>
      [] form = "prefixed" -> <<"/", "api/v3", "/", "search/stories", "?next=c" \o ToString(k)>>
      [] OTHER -> <<"/", "search/stories", "?next=c" \o ToString(k)>>

\* The j-th story document of page k.
StoryDoc(k, j) == SetKey(MinimalDoc("Story"), "id", JInt(10 * k + j))

\* A story document the decoder rejects (no name).
BadStoryDoc(k, j) == DelKey(StoryDoc(k, j), "name")

\* The pages a server answers with: count stories, next a cursor, null, the
\* empty string or no key at all; or an error status; or a page whose
\* stories do not decode.
PageKinds ==
    {[status |-> 200, count |-> 2, next |-> "cursor", decodes |-> TRUE],
     [status |-> 200, count |-> 0, next |-> "cursor", decodes |-> TRUE],
     [status |-> 200, count |-> 1, next |-> "absent", decodes |-> TRUE],
     [status |-> 200, count |-> 2, next |-> "null", decodes |-> TRUE],
     [status |-> 200, count |-> 0, next |-> "empty", decodes |-> TRUE],
     [status |-> 200, count |-> 1, next |-> "cursor", decodes |-> FALSE],
     [status |-> 500, count |-> 0, next |-> "absent", decodes |-> TRUE]}

\* The body of page k: {"data": [...], "total": n, "next": ...}.
PageBody(k, kind, form) ==
    [key \in (IF kind.next = "absent" THEN {"data", "total"} ELSE {"data", "total", "next"}) |->
        CASE key = "data" ->
                JList([j \in 1..kind.count |->
                          JDict(IF kind.decodes THEN StoryDoc(k, j) ELSE BadStoryDoc(k, j))])
          [] key = "total" -> JInt(kind.count)
          [] OTHER ->
                CASE kind.next = "cursor" -> JTokens(Cursor(k + 1, form))
                  [] kind.next = "empty" -> JStr("")
                  [] OTHER -> JNull]

\* The response carrying page k.
Response(k, kind, form) ==
    IF kind.status = 200 THEN [status |-> 200, body |-> JDict(PageBody(k, kind, form))]
    ELSE [status |-> kind.status, body |-> JDict([key \in {"message"} |-> JStr("error")])]

\* The answer to the next request of query q.
Answer(q) ==
    IF Len(requests[q]) < Len(pages[q]) THEN pages[q][Len(requests[q]) + 1]
    ELSE pages[q][Len(pages[q])]

----------------------------------------------------------------------------
(* The generator frame of _paginate_results: pc is idle before             *)
(* search_stories_iter is called, iter while the generator is suspended    *)
(* in one of its for loops (data the page being iterated, i the next       *)
(* element to yield), done once it has returned, raised once an exception  *)
(* has propagated to the caller.                                           *)

Idle == [pc |-> "idle", data |-> <<>>, i |-> 1, next_url |-> JNull, error |-> NoError]

RaisedFrame(e) == [pc |-> "raised", data |-> <<>>, i |-> 1, next_url |-> JNull, error |-> e]

\* The loop over result.data that starts at its second element.
IterateFromSecond(call) ==
    The({IF r.ok
         THEN [pc |-> "iter", data |-> r.value.v.attrs["data"].v, i |-> 2,
               next_url |-> r.value.v.attrs["next"], error |-> NoError]
         ELSE RaisedFrame(r.error) : r \in {call}})

\* A loop over result.data that forgets result.next.
IterateWithoutCursor(call) ==
    The({IF r.ok
         THEN [pc |-> "iter", data |-> r.value.v.attrs["data"].v, i |-> 1,
               next_url |-> JNull, error |-> NoError]
         ELSE RaisedFrame(r.error) : r \in {call}})

\* result = SearchStoryResult.from_json(response) (r), then the loop over
\* result.data, with next_url = result.next for afterwards.
Iterate(call) ==
    The({IF r.ok
         THEN [pc |-> "iter", data |-> r.value.v.attrs["data"].v, i |-> 1,
               next_url |-> r.value.v.attrs["next"], error |-> NoError]
         ELSE RaisedFrame(r.error) : r \in {call}})

\* A paginator that takes a page it cannot fetch or decode for the end of
\* the sequence.
ReceiveSwallowing(resp) ==
    IF resp.status >= 400 \/ ~FromJson("SearchStoryResult", resp.body).ok
    THEN [pc |-> "iter", data |-> <<>>, i |-> 1, next_url |-> JNull, error |-> NoError]
    ELSE Iterate(FromJson("SearchStoryResult", resp.body))

\* _make_request then from_json: raise_for_status() raises on 4xx and 5xx,
\* otherwise response.json() is decoded.
Receive(resp) ==
    IF resp.status >= 400 THEN RaisedFrame(HTTPError(resp.status))
    ELSE Iterate(FromJson("SearchStoryResult", resp.body))

\* A loop condition that never holds.
Never(f) == FALSE

\* while next_url:
HasMore(f) == Truthy(f.next_url)

InitPaginate ==
    /\ models = Registry
    /\ \E n \in 1..MaxPages : \E kinds \in [1..n -> PageKinds] : \E form \in CursorForms :
          pages = [q \in Queries |-> [k \in 1..n |-> Response(k, kinds[k], form)]]
    /\ gen = [q \in Queries |-> Idle]
    /\ yielded = [q \in Queries |-> <<>>]
    /\ requests = [q \in Queries |-> <<>>]
    /\ cls = "none" /\ raw = JNull /\ data = JNull /\ outcome = Pending /\ second = Pending
    /\ method = "none" /\ record = JNull /\ sent = Pending /\ http = <<>>
    /\ heap = <<>> /\ calls = <<>>

\* search_stories_iter(params): the first page is requested and decoded by
\* search_stories, then the generator is created.
search_stories_iter(q) ==
    /\ gen[q].pc = "idle"
    /\ requests' = [requests EXCEPT ![q] = Append(@, UrlOf(SearchStoriesPath))]
    /\ gen' = [gen EXCEPT ![q] = Receive(Answer(q))]
    /\ UNCHANGED <<models, pages, yielded>>
    /\ UNCHANGED decVars
    /\ UNCHANGED encVars
    /\ UNCHANGED conVars

\* for item in <page>.data: yield item
PaginateYield(q) ==
    /\ gen[q].pc = "iter"
    /\ gen[q].i <= Len(gen[q].data)
    /\ yielded' = [yielded EXCEPT ![q] = Append(@, gen[q].data[gen[q].i])]
    /\ gen' = [gen EXCEPT ![q].i = @ + 1]
    /\ UNCHANGED <<models, pages, requests>>
    /\ UNCHANGED decVars
    /\ UNCHANGED encVars
    /\ UNCHANGED conVars

\* A paginator that keeps next_url on the client instead of in the
\* generator: the follow-up request takes the cursor any generator left.
PaginateFollowShared(q) ==
    /\ gen[q].pc = "iter"
    /\ gen[q].i > Len(gen[q].data)
    /\ Len(requests[q]) < MaxRequests
    /\ \E o \in DOMAIN gen :
          /\ HasMore(gen[o])
          /\ requests' = [requests EXCEPT ![q] = Append(@, UrlOf(NextPath(gen[o].next_url.v)))]
    /\ gen' = [gen EXCEPT ![q] = Receive(Answer(q))]
    /\ UNCHANGED <<models, pages, yielded>>
    /\ UNCHANGED decVars
    /\ UNCHANGED encVars
    /\ UNCHANGED conVars

\* The body of `while next_url:` up to the loop over result.data.
PaginateFollow(q) ==
    /\ gen[q].pc = "iter"
    /\ gen[q].i > Len(gen[q].data)
    /\ HasMore(gen[q])
    /\ Len(requests[q]) < MaxRequests
    /\ requests' = [requests EXCEPT ![q] = Append(@, UrlOf(NextPath(gen[q].next_url.v)))]
    /\ gen' = [gen EXCEPT ![q] = Receive(Answer(q))]
    /\ UNCHANGED <<models, pages, yielded>>
    /\ UNCHANGED decVars
    /\ UNCHANGED encVars
    /\ UNCHANGED conVars

\* next_url is falsy: the generator returns (StopIteration).
PaginateReturn(q) ==
    /\ gen[q].pc = "iter"
    /\ gen[q].i > Len(gen[q].data)
    /\ ~HasMore(gen[q])
    /\ gen' = [gen EXCEPT ![q].pc = "done"]
    /\ UNCHANGED <<models, pages, yielded, requests>>
    /\ UNCHANGED decVars
    /\ UNCHANGED encVars
    /\ UNCHANGED conVars

Next ==
    \/ \E q \in Queries : search_stories_iter(q)
    \/ \E q \in Queries : PaginateYield(q)
    \/ \E q \in Queries : PaginateFollow(q)
    \/ \E q \in Queries : PaginateReturn(q)

Spec == InitPaginate /\ [][Next]_vars

\* The consumer keeps asking for the next element (for story in ...: ...)
\* and every request is answered: no enabled step is postponed for ever.
FairSpec == Spec /\ WF_vars(Next)

----------------------------------------------------------------------------
(* Properties of the paginator (Spec, FairSpec).                           *)

\* The page carries a cursor: next is a non-empty string.
CarriesNext(p) ==
    /\ "next" \in DOMAIN p.body.v
    /\ p.body.v["next"].t = "str"
    /\ Truthy(p.body.v["next"])

\* The page is a 200 whose stories decode.
GoodPage(p) == p.status = 200 /\ FromJson("SearchStoryResult", p.body).ok

\* The pages without cursor in the chain of q.
Ends(q) == {k \in 1..Len(pages[q]) : ~CarriesNext(pages[q][k])}

\* n: the first page of the chain without cursor (0 when every page has one).
LastPage(q) ==
    IF Ends(q) = {} THEN 0 ELSE CHOOSE k \in Ends(q) : \A j \in Ends(q) : k <= j

\* A finite chain p1..pn of good pages of which only p1..p(n-1) carry a cursor.
FiniteChain(q) ==
    /\ Ends(q) # {}
    /\ \A k \in 1..LastPage(q) : GoodPage(pages[q][k])

\* data(p): the stories of a page, decoded one by one.
DecodedData(p) ==
    [j \in 1..Len(p.body.v["data"].v) |-> FromJson("Story", p.body.v["data"].v[j]).value]

\* data(p1) ++ ... ++ data(pk)
RECURSIVE Concatenation(_, _)
Concatenation(q, k) ==
    IF k = 0 THEN <<>> ELSE Concatenation(q, k - 1) \o DecodedData(pages[q][k])

IsPrefix(s, t) == Len(s) <= Len(t) /\ SubSeq(t, 1, Len(s)) = s

\* C1: over a finite chain p1..pn of which only p1..p(n-1) carry a cursor,
\* what has been yielded is at any time a prefix of data(p1) ++ ... ++
\* data(pn), and once the sequence is consumed it is exactly that
\* concatenation: nothing dropped, duplicated or reordered.
C1_YieldsConcatenation ==
    \A q \in Queries :
        FiniteChain(q) =>
            /\ IsPrefix(yielded[q], Concatenation(q, LastPage(q)))
            /\ gen[q].pc = "done" => yielded[q] = Concatenation(q, LastPage(q))

\* Three pages of which the first two carry a cursor were consumed: two
\* stories, two stories, one story.
C1_Witness ==
    /\ Len(pages["q1"]) = 3
    /\ FiniteChain("q1")
    /\ LastPage("q1") = 3
    /\ gen["q1"].pc = "done"
    /\ Len(yielded["q1"]) = 5
    /\ yielded["q1"][5].v.attrs["id"] = JInt(31)

\* C2: if the n-th page is the first without cursor, the paginator never
\* issues more than n requests, and consuming the sequence eventually
\* finishes with exactly n requests issued: the initial query and n-1
\* follow-ups.
C2_TerminatesWhenNextAbsent ==
    /\ [](\A q \in Queries : Len(requests[q]) > LastPage(q) => ~FiniteChain(q))
    /\ \A q \in Queries :
          (gen[q].pc = "idle" /\ FiniteChain(q))
              ~> (gen[q].pc = "done" /\ Len(requests[q]) = LastPage(q))
    /\ [][\A q \in Queries : gen[q].pc = "done" => requests'[q] = requests[q]]_vars

\* A chain whose second page is the first without cursor was consumed with
\* two requests, a third page never asked for.
C2_Witness ==
    /\ Len(pages["q1"]) = 3
    /\ FiniteChain("q1")
    /\ LastPage("q1") = 2
    /\ gen["q1"].pc = "done"
    /\ Len(requests["q1"]) = 2
----------------------------------------------------------------------------
(* Two callers of from_json (SpecThreads).  heap holds the dict objects    *)
(* the callers pass: both pass the same object, or each passes its own.    *)
(* A call runs the statements of the from_json body one at a time (pc is   *)
(* the next one) and then the return statement; the interpreter may switch *)
(* to the other caller between any two statements.                         *)

Threads == {1, 2}

\* The documents a caller passes for class c.
ThreadDocuments(c) == {JDict(MinimalDoc(c)), JDict(FullDoc(c))}

\* The frame of C.from_json(heap[ref]) before its first statement; arg is
\* the document as it is when the call is made.
Frame(c, ref, arg) == [cls |-> c, ref |-> ref, arg |-> arg, pc |-> 1, result |-> Pending]

InitThreads ==
    /\ models = Registry
    /\ \E c \in ReadClasses :
          \/ \E a \in ThreadDocuments(c) :
                /\ heap = <<a>>
                /\ calls = [t \in Threads |-> Frame(c, 1, a)]
          \/ \E a \in ThreadDocuments(c) : \E b \in ThreadDocuments(c) :
                /\ heap = <<a, b>>
                /\ calls = [t \in Threads |-> Frame(c, t, IF t = 1 THEN a ELSE b)]
    /\ cls = "none" /\ raw = JNull /\ data = JNull /\ outcome = Pending /\ second = Pending
    /\ pages = <<>> /\ gen = <<>> /\ yielded = <<>> /\ requests = <<>>
    /\ method = "none" /\ record = JNull /\ sent = Pending /\ http = <<>>

\* The body of the from_json that caller t runs.
BodyOf(t) == ClassOf(calls[t].cls).from_json

\* Caller t runs the next statement of the body on the dict it was passed:
\* the statement assigns into that dict, or raises.
ThreadStatement(t) ==
    /\ calls[t].result.status = "none"
    /\ calls[t].pc <= Len(BodyOf(t))
    /\ \E r \in {Statement(BodyOf(t)[calls[t].pc], heap[calls[t].ref].v)} :
          /\ heap' = [heap EXCEPT ![calls[t].ref] = JDict(r.data)]
          /\ calls' = [calls EXCEPT ![t] =
                          IF r.ok THEN [@ EXCEPT !.pc = @ + 1]
                          ELSE [@ EXCEPT !.result = [status |-> "raised", value |-> JNull,
                                                     error |-> r.error]]]
    /\ UNCHANGED models
    /\ UNCHANGED pagVars
    /\ UNCHANGED decVars
    /\ UNCHANGED encVars

\* Caller t runs the return statement: cls(...) on the dict as it is now.
ThreadReturn(t) ==
    /\ calls[t].result.status = "none"
    /\ calls[t].pc > Len(BodyOf(t))
    /\ calls' = [calls EXCEPT ![t].result = Outcome(Construct(calls[t].cls, heap[calls[t].ref].v))]
    /\ UNCHANGED <<models, heap>>
    /\ UNCHANGED pagVars
    /\ UNCHANGED decVars
    /\ UNCHANGED encVars

NextThreads ==
    \/ \E t \in Threads : ThreadStatement(t)
    \/ \E t \in Threads : ThreadReturn(t)

SpecThreads == InitThreads /\ [][NextThreads]_vars
----------------------------------------------------------------------------
(* Two paginated queries on one client (SpecQueries): two generators,      *)
(* each with its own frame, consumed in any interleaving.  The server      *)
(* keeps a chain of pages for each query; the pages, cursors and stories   *)
(* of the second query differ from those of the first.                     *)

TwoQueries == {"q1", "q2"}

MaxQueryPages == 2  \* the longest chain of pages the server holds for either query

\* The pages of the two queries: stories and a cursor, a last page, or an
\* error status.
QueryPageKinds ==
    {kind \in PageKinds : kind.decodes /\ kind.next \in {"cursor", "absent"}
                          /\ (kind.count > 0 \/ kind.status >= 400)}

\* The chains of at most MaxQueryPages pages whose first page is page first + 1.
QueryChains(first) ==
    UNION {{[k \in 1..n |-> Response(first + k, kinds[k], "path")] :
               kinds \in [1..n -> QueryPageKinds]} : n \in 1..MaxQueryPages}

InitQueries ==
    /\ models = Registry
    /\ \E c1 \in QueryChains(0) : \E c2 \in QueryChains(MaxPages) :
          pages = [q \in TwoQueries |-> IF q = "q1" THEN c1 ELSE c2]
    /\ gen = [q \in TwoQueries |-> Idle]
    /\ yielded = [q \in TwoQueries |-> <<>>]
    /\ requests = [q \in TwoQueries |-> <<>>]
    /\ cls = "none" /\ raw = JNull /\ data = JNull /\ outcome = Pending /\ second = Pending
    /\ method = "none" /\ record = JNull /\ sent = Pending /\ http = <<>>
    /\ heap = <<>> /\ calls = <<>>

\* Either generator, or the call that creates it, takes a step.
NextQueries ==
    \/ \E q \in TwoQueries : search_stories_iter(q)
    \/ \E q \in TwoQueries : PaginateYield(q)
    \/ \E q \in TwoQueries : PaginateFollow(q)
    \/ \E q \in TwoQueries : PaginateReturn(q)

SpecQueries == InitQueries /\ [][NextQueries]_vars
----------------------------------------------------------------------------
(* Further properties of from_json (SpecDecode).                           *)

\* An ISO-8601 timestamp string: a date, a date and a time, or a date and a
\* time with Z or an offset.
IsIso8601(x) ==
    /\ x.t = "str"
    /\ \/ Len(x.v) = 1 /\ IsDateToken(x.v[1])
       \/ Len(x.v) = 3 /\ IsDateToken(x.v[1]) /\ x.v[2] = "T" /\ IsTimeToken(x.v[3])
       \/ /\ Len(x.v) = 4 /\ IsDateToken(x.v[1]) /\ x.v[2] = "T" /\ IsTimeToken(x.v[3])
          /\ (x.v[4] = "Z" \/ IsOffsetToken(x.v[4]))

\* The declared timestamp fields of the document d of class c that hold a
\* string that is not ISO-8601.
MalformedIn(c, d) ==
    {n \in TimestampFields(c) \cap DOMAIN d : d[n].t = "str" /\ ~IsIso8601(d[n])}

\* The nested documents of d (of class c) that hold such a string.
NestedMalformedIn(c, d) ==
    {n \in TimestampedRecords(c) \cap DOMAIN d :
        \/ d[n].t = "dict" /\ MalformedIn(FieldOf(c, n).of, d[n].v) # {}
        \/ /\ d[n].t = "list"
           /\ \E i \in 1..Len(d[n].v) :
                 d[n].v[i].t = "dict" /\ MalformedIn(FieldOf(c, n).of, d[n].v[i].v) # {}}

\* C11: a document that holds, in a declared timestamp field of its own or
\* of a nested document, a string that is not ISO-8601 is never decoded to
\* an entity: from_json raises to its caller.
C11_MalformedTimestampFails ==
    (Called /\ (MalformedIn(cls, raw.v) # {} \/ NestedMalformedIn(cls, raw.v) # {}))
        => RaisedError

\* A Member document that embeds a profile document: the profile carries
\* the required Profile fields and only declared ones.
EmbedsProfile ==
    /\ cls = "Member"
    /\ "profile" \in DOMAIN raw.v
    /\ raw.v["profile"].t = "dict"
    /\ Required("Profile") \subseteq DOMAIN raw.v["profile"].v
    /\ DOMAIN raw.v["profile"].v \subseteq FieldNames("Profile")

\* C12: a Member document that carries id and embeds a profile document
\* decodes, whatever undeclared keys (group_ids) it holds besides, to a Member
\* whose profile is a Profile record holding the embedded values (and the
\* defaults of the fields the profile omits); the undeclared keys are not on
\* the Member.
C12_MemberProfileHydrated ==
    (Called /\ EmbedsProfile /\ MissingRequired = {})
    => /\ ReturnedEntity
       /\ Attrs["profile"].t = "obj"
       /\ Attrs["profile"].v.cls = "Profile"
       /\ \A k \in FieldNames("Profile") :
             Attrs["profile"].v.attrs[k] =
                 IF k \in DOMAIN raw.v["profile"].v THEN raw.v["profile"].v[k]
                 ELSE FieldOf("Profile", k).default
       /\ DOMAIN Attrs \cap UnknownKeys = {}

\* The get_current_member document, group_ids included, was decoded: the
\* profile is a Profile with mention_name "testuser" and is_owner false.
C12_Witness ==
    /\ cls = "Member"
    /\ raw.v = TestMemberDoc
    /\ "group_ids" \in UnknownKeys
    /\ ReturnedEntity
    /\ Attrs["profile"].v.cls = "Profile"
    /\ Attrs["profile"].v.attrs["mention_name"] = JStr("testuser")
    /\ Attrs["profile"].v.attrs["is_owner"] = JBool(FALSE)

\* The replies of a ThreadedComment document: its comments, none if omitted.
Replies(d) == IF "comments" \in DOMAIN d THEN d["comments"].v ELSE <<>>

\* d is a well-formed ThreadedComment document, and so are its replies at
\* every level.
RECURSIVE IsCommentTree(_)
IsCommentTree(d) ==
    /\ Required("ThreadedComment") \subseteq DOMAIN d
    /\ DOMAIN d \subseteq FieldNames("ThreadedComment")
    /\ \A n \in TimestampFields("ThreadedComment") \cap DOMAIN d : d[n] \in TimestampStrings
    /\ "comments" \in DOMAIN d => d["comments"].t = "list"
    /\ \A i \in 1..Len(Replies(d)) : Replies(d)[i].t = "dict" /\ IsCommentTree(Replies(d)[i].v)

RECURSIVE DocDepth(_)
DocDepth(d) ==
    IF Len(Replies(d)) = 0 THEN 0
    ELSE 1 + (CHOOSE m \in {DocDepth(Replies(d)[i].v) : i \in 1..Len(Replies(d))} :
                 \A i \in 1..Len(Replies(d)) : DocDepth(Replies(d)[i].v) <= m)

RECURSIVE EntityDepth(_)
EntityDepth(e) ==
    IF e.v.attrs["comments"].v = <<>> THEN 0
    ELSE 1 + (CHOOSE m \in {EntityDepth(e.v.attrs["comments"].v[i]) :
                               i \in 1..Len(e.v.attrs["comments"].v)} :
                 \A i \in 1..Len(e.v.attrs["comments"].v) :
                     EntityDepth(e.v.attrs["comments"].v[i]) <= m)

\* e is the ThreadedComment record of the document d: the same comment, and
\* its comments are the records of d's replies, one for one and in order.
RECURSIVE SameTree(_, _)
SameTree(e, d) ==
    /\ e.t = "obj"
    /\ e.v.cls = "ThreadedComment"
    /\ e.v.attrs["id"] = d["id"]
    /\ e.v.attrs["text"] = d["text"]
    /\ e.v.attrs["comments"].t = "list"
    /\ Len(e.v.attrs["comments"].v) = Len(Replies(d))
    /\ \A i \in 1..Len(Replies(d)) : SameTree(e.v.attrs["comments"].v[i], Replies(d)[i].v)

\* C13: a well-formed ThreadedComment document nested to depth d decodes to
\* a tree of ThreadedComment records of depth d with the same children in
\* the same order at every node; a node without replies in the document
\* (comments empty or omitted) has an empty comments sequence.
C13_ThreadedTreePreserved ==
    (Called /\ cls = "ThreadedComment" /\ IsCommentTree(raw.v))
    => /\ ReturnedEntity
       /\ SameTree(outcome.value, raw.v)
       /\ EntityDepth(outcome.value) = DocDepth(raw.v)

\* A document with two levels of replies, two replies per comment, was
\* decoded: a tree of depth 2 whose leaf 112 has no comments.
C13_Witness ==
    /\ cls = "ThreadedComment"
    /\ raw.v = CommentTree(2, 2, 1, "omitted")
    /\ ReturnedEntity
    /\ EntityDepth(outcome.value) = 2
    /\ Attrs["comments"].v[1].v.attrs["comments"].v[2].v.attrs["id"] = JInt(112)
    /\ Attrs["comments"].v[1].v.attrs["comments"].v[2].v.attrs["comments"] = JList(<<>>)

\* C15: a from_json call leaves the document it was given as it was, the
\* same keys mapped to the same values, nested documents included, whether
\* it returns an entity or raises.
C15_DecodeLeavesDocument == Called => data = raw

\* The list-valued relationship fields of class c: the fields annotated as a
\* list of identifiers (owner_ids, label_ids, follower_ids, ...).
IdListFields(c) ==
    {Fields(c)[i].name : i \in {j \in 1..Len(Fields(c)) :
        Fields(c)[j].kind = "list" /\ Fields(c)[j].of \in {"int", "str"}}}

\* C16: an entity decoded from a document that omits a list-valued
\* relationship field holds the empty list in that field, never None.
C16_RelationshipListsNeverAbsent ==
    ReturnedEntity => \A n \in IdListFields(cls) \ DOMAIN raw.v : Attrs[n] = JList(<<>>)

\* The caller decoded its document, and then decoded it again.
DecodedTwice == Called /\ second.status # "none"

\* C19: a document that decodes, decoded a second time with the same class,
\* decodes again, to a value equal to the first.
C19_RepeatedDecodeRepeats ==
    (DecodedTwice /\ outcome.status = "returned")
    => second.status = "returned" /\ second.value = outcome.value

\* The fields of class c declared as a nested record, and as a list of
\* nested records.
RecordFields(c) ==
    {Fields(c)[i].name : i \in {j \in 1..Len(Fields(c)) : Fields(c)[j].kind = "record"}}
RecordListFields(c) ==
    {Fields(c)[i].name : i \in {j \in 1..Len(Fields(c)) : Fields(c)[j].kind = "record_list"}}

\* x is a record of class c.
IsRecordOf(x, c) == x.t = "obj" /\ x.v.cls = c

\* C23: in a decoded entity every field declared as a nested record, whose
\* key the document holds with a map, is a record of the nested class, and
\* every field declared as a list of nested records, whose key the document
\* holds with a list, is a list of records of the nested class: never the
\* raw map(s).
C23_NestedRecordsHydrated ==
    ReturnedEntity
    => /\ \A n \in RecordFields(cls) \cap DOMAIN raw.v :
             raw.v[n].t = "dict" => IsRecordOf(Attrs[n], FieldOf(cls, n).of)
       /\ \A n \in RecordListFields(cls) \cap DOMAIN raw.v :
             raw.v[n].t = "list"
             => /\ Attrs[n].t = "list"
                /\ Len(Attrs[n].v) = Len(raw.v[n].v)
                /\ \A i \in 1..Len(Attrs[n].v) : IsRecordOf(Attrs[n].v[i], FieldOf(cls, n).of)

\* The optional fields the document holds with the value null.
NullFields == {n \in Optionals(cls) \cap DOMAIN raw.v : raw.v[n] = JNull}

\* C24: a document that holds an optional field with the value null decodes
\* to the outcome - the same entity or the same error - of the document
\* without that key.
C24_NullSameAsOmitted ==
    Called => \A n \in NullFields : outcome = Outcome(FromJson(cls, JDict(DelKey(raw.v, n))))

\* The class declares an entity_type literal: entity_type: str = "story".
DeclaresEntityType(c) ==
    /\ "entity_type" \in FieldNames(c)
    /\ FieldOf(c, "entity_type").has_default
    /\ FieldOf(c, "entity_type").default.t = "str"

\* C27: the entity_type of a decoded entity is the literal its class
\* declares, whatever the document holds.
C27_EntityTypeIsLiteral ==
    (ReturnedEntity /\ DeclaresEntityType(cls))
    => Attrs["entity_type"] = FieldOf(cls, "entity_type").default

----------------------------------------------------------------------------
(* Properties of the client methods (SpecEncode).                          *)

\* The method was called and the server answered.
Answered == sent.status = "sent" /\ Len(http) = 1

\* C14: for every client method, when the response status is 4xx or 5xx the
\* method raises HTTPError carrying that status, the response body was not
\* handed to any from_json (it is as the server sent it and no decode error
\* took the place of the HTTP error), and no entity is returned.
C14_HttpErrorBeforeDecode ==
    (Answered /\ http[1].status >= 400)
    => /\ outcome.status = "raised"
       /\ outcome.error = HTTPError(http[1].status)
       /\ outcome.value = JNull
       /\ data = raw

\* get_story answered 404 raised HTTPError carrying 404, and create_story
\* answered 500 raised HTTPError carrying 500.
C14_Witness ==
    /\ Answered
    /\ \/ method = "get_story" /\ http[1].status = 404 /\ outcome.error = HTTPError(404)
       \/ method = "create_story" /\ http[1].status = 500 /\ outcome.error = HTTPError(500)
    /\ outcome.status = "raised"

\* C20: create_doc with a CreateDocInput sends one POST to /documents and,
\* answered with a 2xx document, returns it hydrated as a Doc record.
C20_CreateDocReturnsDoc ==
    (Answered /\ method = "create_doc" /\ http[1].status \in {200, 201} /\ raw.t = "dict")
    => /\ http[1].verb = "POST" /\ http[1].path = "/documents"
       /\ outcome.status = "returned"
       /\ outcome.value.t = "obj"
       /\ outcome.value.v.cls = "Doc"

\* The methods that send DELETE: the delete_* methods (and
\* unlink_document_from_epic).
DeleteMethods == {m \in DOMAIN ReadMethods : ReadMethods[m].verb = "DELETE"}

\* C21: a delete_* method answered 204 with an empty body has sent exactly
\* one request, raises nothing, decodes nothing and returns None.
C21_NoContentIsSuccess ==
    (sent.status = "sent" /\ method \in DeleteMethods /\ http # <<>>
        /\ http[Len(http)].status = 204 /\ raw = NoContent)
    => /\ Len(http) = 1
       /\ outcome.status = "returned"
       /\ outcome.error = NoError
       /\ outcome.value = JNull

\* delete_story and delete_doc were answered 204 and returned None.
C21_Witness ==
    /\ Answered
    /\ method \in {"delete_story", "delete_doc"}
    /\ http[1] = [verb |-> "DELETE", path |-> ReadMethods[method].path, status |-> 204]
    /\ raw = NoContent
    /\ outcome.status = "returned" /\ outcome.value = JNull

\* C22: a response whose status is not 200, 201 or 204 makes the call
\* raise; it neither returns a decoded value nor completes normally.
C22_OnlySuccessStatusesReturn ==
    (Answered /\ http[1].status \notin {200, 201, 204}) => outcome.status = "raised"

----------------------------------------------------------------------------
(* Further properties of the paginator (Spec).                             *)

\* The URL of the cursor that points to page k: the base URL joined with the
\* cursor's path and query relative to that base.
CursorUrl(k) == BASE_URL \o <<"/", "search/stories", "?next=c" \o ToString(k)>>

\* The page the n-th request of query q was answered with.
PageAnswering(q, n) == IF n < Len(pages[q]) THEN n ELSE Len(pages[q])

\* C17: whichever form the server writes the cursor in (absolute URL, path
\* with the API prefix, path relative to the base), every follow-up request
\* goes to the base URL joined with the cursor's path and query relative to
\* the base, so all forms of one cursor give the same request URL.
C17_CursorFormTransparent ==
    \A q \in Queries : \A n \in 2..Len(requests[q]) :
        requests[q][n] = CursorUrl(PageAnswering(q, n - 1) + 1)

----------------------------------------------------------------------------
(* Properties of concurrent callers of from_json (SpecThreads).            *)

\* Caller t has returned or raised.
Finished(t) == calls # <<>> /\ calls[t].result.status # "none"

\* C18: each of two concurrent from_json calls ends, in every interleaving,
\* with the outcome the call has when it runs alone on the document it was
\* given: the same entity or the same error.
C18_ConcurrentDecodeIndependent ==
    \A t \in Threads :
        Finished(t) => calls[t].result = Outcome(FromJson(calls[t].cls, calls[t].arg))

\* The page the n-th request of query q was answered with.
PageAt(q, n) == pages[q][PageAnswering(q, n)]

\* The number of stories of the pages that answered the first n requests.
RECURSIVE Delivered(_, _)
Delivered(q, n) ==
    IF n = 0 THEN 0 ELSE Delivered(q, n - 1) + Len(PageAt(q, n).body.v["data"].v)

\* What has been yielded of the page that answered the latest request.
InProgress(q) ==
    CASE gen[q].pc = "iter" -> gen[q].i - 1
      [] gen[q].pc = "done" -> Len(gen[q].data)
      [] OTHER -> 0

\* Lazy: when the n-th request has been issued, every story of the pages
\* that answered requests 1..n-1 has been yielded, and of the latest page
\* those the consumer asked for.
Lazy(q) ==
    requests[q] # <<>>
    => Len(yielded[q]) = Delivered(q, Len(requests[q]) - 1) + InProgress(q)

\* Forward: the n-th request (n >= 2) carries the cursor of the page that
\* answered request n-1.
Forward(q) ==
    \A n \in 2..Len(requests[q]) :
        /\ CarriesNext(PageAt(q, n - 1))
        /\ requests[q][n][Len(requests[q][n])]
              = PageAt(q, n - 1).body.v["next"].v[Len(PageAt(q, n - 1).body.v["next"].v)]

\* No page is requested twice and no story is yielded twice.
NothingTwice(q) ==
    /\ \A m \in 1..Len(requests[q]) : \A n \in 1..Len(requests[q]) :
          m # n => requests[q][m] # requests[q][n]
    /\ \A i \in 1..Len(yielded[q]) : \A j \in 1..Len(yielded[q]) :
          i # j => yielded[q][i] # yielded[q][j]

\* The server has answered with a page, and so with a cursor, a second time.
CursorRepeated(q) == Len(requests[q]) > Len(pages[q])

\* C25 as stated: page k+1 is requested only after every element of page k
\* was delivered, each follow-up request targets the cursor of the preceding
\* page, and no page is requested twice and no element yielded twice.
C25_LazyForwardOnly ==
    \A q \in Queries : Lazy(q) /\ Forward(q) /\ NothingTwice(q)

\* C25 amended: page k+1 is requested only after every element of page k
\* was delivered and each follow-up request targets the cursor of the
\* preceding page; as long as the server has not returned a cursor a second
\* time, no page is requested twice and no element yielded twice.
C25_LazyForwardOnlyWhileCursorsDiffer ==
    \A q \in Queries :
        /\ Lazy(q)
        /\ Forward(q)
        /\ ~CursorRepeated(q) => NothingTwice(q)

\* Three pages were requested one after the other, each follow-up with the
\* cursor of the page before, and the consumer is in the middle of the third.
C25_Witness ==
    /\ Len(requests["q1"]) = 3
    /\ ~CursorRepeated("q1")
    /\ gen["q1"].pc = "iter"
    /\ gen["q1"].i = 2
    /\ Len(gen["q1"].data) = 2
    /\ Len(yielded["q1"]) = 5
    /\ requests["q1"][3][Len(requests["q1"][3])] = "?next=c3"

\* Every page of the chain of q is good and carries a cursor: the server
\* answers every request past the chain with the last page, and so with the
\* same cursor, again.
EndlessChain(q) ==
    \A k \in 1..Len(pages[q]) : GoodPage(pages[q][k]) /\ CarriesNext(pages[q][k])

\* The consumption of q is over: the generator returned or raised.
Terminated(q) == gen[q].pc \in {"done", "raised"}

\* C26: when the server keeps returning the same cursor the paginator never
\* terminates and re-requests that cursor again and again (no cycle
\* detection, no page limit); and every consumption terminates unless the
\* server has returned a cursor a second time, in which case the requests go
\* on up to the bound.
C26_InfiniteOnlyWhenCursorRepeats ==
    /\ [](\A q \in Queries : EndlessChain(q) =>
            /\ ~Terminated(q)
            /\ \A n \in (Len(pages[q]) + 2)..Len(requests[q]) :
                  requests[q][n] = requests[q][n - 1])
    /\ <>(\A q \in Queries :
            \/ Terminated(q)
            \/ CursorRepeated(q) /\ Len(requests[q]) = MaxRequests)

\* A one-page chain whose page carries a cursor: the same cursor was
\* requested again and again, up to the bound on requests.
C26_Witness ==
    /\ Len(pages["q1"]) = 1
    /\ EndlessChain("q1")
    /\ Len(requests["q1"]) = MaxRequests
    /\ requests["q1"][MaxRequests] = requests["q1"][2]
    /\ ~Terminated("q1")

\* The latest request of q was for a later page (k >= 2) and failed: the
\* page has an error status or its stories do not decode.
LaterPageFailed(q) ==
    /\ Len(requests[q]) >= 2
    /\ ~GoodPage(PageAt(q, Len(requests[q])))

\* C29: when the request or the decode of page k >= 2 fails, the error is
\* raised to the consumer, who has by then been given every element of pages
\* 1..k-1 exactly once and in order and nothing of page k; and once the
\* error is raised nothing more is requested or yielded.
C29_LaterPageFailureSurfaces ==
    /\ [](\A q \in Queries : LaterPageFailed(q) =>
            /\ gen[q].pc = "raised"
            /\ gen[q].error # NoError
            /\ yielded[q] = Concatenation(q, Len(requests[q]) - 1))
    /\ [][\A q \in Queries : gen[q].pc = "raised" =>
            requests'[q] = requests[q] /\ yielded'[q] = yielded[q]]_vars

\* Two pages of two stories were consumed and the third request was
\* answered 500: HTTPError reached the consumer after four stories.
C29_Witness ==
    /\ Len(requests["q1"]) = 3
    /\ LaterPageFailed("q1")
    /\ gen["q1"].pc = "raised"
    /\ gen["q1"].error = HTTPError(500)
    /\ Len(yielded["q1"]) = 4

----------------------------------------------------------------------------
(* Properties of two paginated queries on one client (SpecQueries).        *)

\* The stories of the pages that answered the first n requests of q.
RECURSIVE OwnStories(_, _)
OwnStories(q, n) ==
    IF n = 0 THEN <<>> ELSE OwnStories(q, n - 1) \o DecodedData(PageAt(q, n))

\* The pages that answered the requests of q so far, but the last one when
\* it was an error.
Decoded(q) ==
    IF gen[q].pc = "raised" THEN Len(requests[q]) - 1 ELSE Len(requests[q])

\* C28: in every interleaving of two paginated queries each sequence yields
\* its own query's pages in order, nothing of the other query's, and each
\* follow-up request carries the cursor of that sequence's previous page.
C28_QueriesIndependent ==
    \A q \in DOMAIN requests :
        /\ requests[q] # <<>> => IsPrefix(yielded[q], OwnStories(q, Decoded(q)))
        /\ Lazy(q)
        /\ Forward(q)

\* Both queries are half consumed, the second page of each requested with
\* its own cursor: c2 for the first query and the cursor of the second
\* query's chain for the second.
C28_Witness ==
    /\ DOMAIN requests = TwoQueries
    /\ \A q \in TwoQueries : Len(requests[q]) = 2 /\ gen[q].pc = "iter" /\ gen[q].i = 2
    /\ requests["q1"][2][Len(requests["q1"][2])] = "?next=c2"
    /\ requests["q2"][2][Len(requests["q2"][2])] = "?next=c" \o ToString(MaxPages + 2)
    /\ Len(yielded["q1"]) = 3 /\ Len(yielded["q2"]) = 3
    /\ yielded["q1"][3] # yielded["q2"][3]

----------------------------------------------------------------------------
(* The caller's record after a write method (SpecEncode).                  *)

\* The payload the method would build from the record as the caller holds
\* it now.
PayloadAgain ==
    CASE WriteMethods[method].build = "clean_dict" -> JDict(CleanDict(heap.v.attrs))
      [] WriteMethods[method].build = "create_project" -> JDict(CreateProjectPayload(heap.v.attrs))
      [] WriteMethods[method].build = "update_story_task" -> JDict(UpdateStoryTaskData(heap.v.attrs))
      [] WriteMethods[method].build = "create_milestone" -> JDict(CreateMilestoneRequestData(heap.v.attrs))
      [] WriteMethods[method].build = "update_milestone" -> JDict(UpdateMilestoneData(heap.v.attrs))
      [] WriteMethods[method].build = "update_custom_field" -> JDict(UpdateCustomFieldData(heap.v.attrs))
      [] OTHER -> JDict(CreateMultipleStoriesPayload(heap.v))

\* C30: after a create_*/update_* call, answered with success or with an
\* error, the record the caller holds equals the record passed in, field by
\* field and sub-record by sub-record, and building the payload from it
\* again gives the payload that was sent.
C30_EncodingLeavesRecord ==
    Transmitted => heap = record /\ PayloadAgain = sent.value

\* update_milestone with a category sub-record was answered 500: the payload
\* carries the category as a dict, the caller's record still holds the
\* sub-record.
C30_Witness ==
    /\ Transmitted
    /\ method = "update_milestone"
    /\ http[1].status = 500
    /\ record.v.attrs["categories"].t = "list"
    /\ Len(record.v.attrs["categories"].v) > 0
    /\ sent.value.v["categories"].v[1].t = "dict"
    /\ heap.v.attrs["categories"].v[1].t = "obj"
=============================================================================
